---- MODULE Spec2Model ----
(***************************************************************************)
(* A model of mozilla-services/go-cose: the header registries, the header  *)
(* compression engine, Headers.Get / Headers.Algorithm, the ECDSA signer   *)
(* and verifier, and the SignMessage Sign / Verify protocol.               *)
(*                                                                         *)
(* Go values held in an interface{} are records [t |-> dynamic type,       *)
(* s |-> text, n |-> number] (s for the string types, n for the integer    *)
(* types and bool); two such values are equal exactly when type and value  *)
(* agree, which is Go's equality on interface values and map keys.         *)
(* A uint64 is stored by its 64-bit pattern, written as the signed integer *)
(* with the same bits (uint64(2^64 - 7) is n = -7), so that the conversion *)
(* int(x) of a 64-bit build keeps n.                                       *)
(* A Go map is [isnil |-> BOOLEAN, e |-> set of entries [k, v]] with at    *)
(* most one entry per key.  Ranging over a map visits the entries in an    *)
(* unspecified order, so an operator that writes a map while ranging over  *)
(* another one returns the SET of maps the loop can produce.               *)
(***************************************************************************)
EXTENDS Integers, Sequences, FiniteSets, TLC

(***************************************************************************)
(* Bounds of the model.                                                    *)
(***************************************************************************)
MaxEntries == 2        \* entries of a header map given to the compression engine
MaxHdrEntries == 2     \* entries of the two maps of a Headers given to Get / Algorithm
MaxSigs == 2           \* Signatures added to a SignMessage
MaxShort == 2          \* bytes a signature integer falls short of the curve size

(***************************************************************************)
(* Go values.                                                              *)
(***************************************************************************)
Str(x) == [t |-> "string", s |-> x, n |-> 0]
GoInt(x) == [t |-> "int", s |-> "", n |-> x]
GoInt64(x) == [t |-> "int64", s |-> "", n |-> x]
GoUint64(x) == [t |-> "uint64", s |-> "", n |-> x]
GoBool(b) == [t |-> "bool", s |-> "", n |-> IF b THEN 1 ELSE 0]
CommonHeaderID(x) == [t |-> "CommonHeaderID", s |-> "", n |-> x]
CommonHeaderName(x) == [t |-> "CommonHeaderName", s |-> x, n |-> 0]
AlgID(x) == [t |-> "AlgID", s |-> "", n |-> x]
AlgName(x) == [t |-> "AlgName", s |-> x, n |-> 0]
GoNil == [t |-> "nil", s |-> "", n |-> 0]

MkMap(entries) == [isnil |-> FALSE, e |-> entries]
NilMap == [isnil |-> TRUE, e |-> {}]
Keys(m) == {x.k : x \in m.e}
Lookup(m, key) == (CHOOSE x \in m.e : x.k = key).v
IsMap(entries) == \A x, y \in entries : x.k = y.k => x = y

(***************************************************************************)
(* Common Header Registry (common_headers.go).                             *)
(***************************************************************************)
CommonHeaderIDAlg == 1
CommonHeaderIDCrit == 2
CommonHeaderIDContentType == 3
CommonHeaderIDKeyID == 4
CommonHeaderIDIV == 5
CommonHeaderIDPartialIV == 6
CommonHeaderIDCounterSignature == 7
CommonHeaderNameAlg == "alg"
CommonHeaderNameCrit == "crit"
CommonHeaderNameContentType == "content type"
CommonHeaderNameKeyID == "kid"
CommonHeaderNameIV == "IV"
CommonHeaderNamePartialIV == "Partial IV"
CommonHeaderNameCounterSignature == "counter signature"

\* A lookup result: err = "nil" is Go's nil error; val is the zero value on error.
Ok(x) == [err |-> "nil", val |-> x]
Fail(e, zero) == [err |-> e, val |-> zero]

getNameByCommonHeaderID(tag) ==
  CASE tag = CommonHeaderIDAlg -> Ok(CommonHeaderNameAlg)
    [] tag = CommonHeaderIDCrit -> Ok(CommonHeaderNameCrit)
    [] tag = CommonHeaderIDContentType -> Ok(CommonHeaderNameContentType)
    [] tag = CommonHeaderIDKeyID -> Ok(CommonHeaderNameKeyID)
    [] tag = CommonHeaderIDIV -> Ok(CommonHeaderNameIV)
    [] tag = CommonHeaderIDPartialIV -> Ok(CommonHeaderNamePartialIV)
    [] tag = CommonHeaderIDCounterSignature -> Ok(CommonHeaderNameCounterSignature)
    [] OTHER -> Fail("ErrMissingCOSETagForTag", "")

getNameByIntTag(tag) ==
  CASE tag = 1 -> Ok(CommonHeaderNameAlg)
    [] tag = 2 -> Ok(CommonHeaderNameCrit)
    [] tag = 3 -> Ok(CommonHeaderNameContentType)
    [] tag = 4 -> Ok(CommonHeaderNameKeyID)
    [] tag = 5 -> Ok(CommonHeaderNameIV)
    [] tag = 6 -> Ok(CommonHeaderNamePartialIV)
    [] tag = 7 -> Ok(CommonHeaderNameCounterSignature)
    [] OTHER -> Fail("ErrMissingCOSETagForTag", "")

\* tag is a Go value; the result's val is the text of a CommonHeaderName
GetCommonHeaderNameByID(tag) ==
  CASE tag.t = "CommonHeaderID" -> getNameByCommonHeaderID(tag.n)
    [] tag.t = "int" -> getNameByIntTag(tag.n)
    [] OTHER -> Fail("ErrMissingCOSETagForTag", "")

getIDByCommonHeaderName(name) ==
  CASE name = CommonHeaderNameAlg -> Ok(CommonHeaderIDAlg)
    [] name = CommonHeaderNameCrit -> Ok(CommonHeaderIDCrit)
    [] name = CommonHeaderNameContentType -> Ok(CommonHeaderIDContentType)
    [] name = CommonHeaderNameKeyID -> Ok(CommonHeaderIDKeyID)
    [] name = CommonHeaderNameIV -> Ok(CommonHeaderIDIV)
    [] name = CommonHeaderNamePartialIV -> Ok(CommonHeaderIDPartialIV)
    [] name = CommonHeaderNameCounterSignature -> Ok(CommonHeaderIDCounterSignature)
    [] OTHER -> Fail("ErrMissingCOSETagForLabel", 0)

\* getIDByStringName that also takes names written in another case.
getIDByStringNameAnyCase(name) ==
  CASE name \in {"alg", "ALG", "Alg"} -> Ok(CommonHeaderIDAlg)
    [] name = "crit" -> Ok(CommonHeaderIDCrit)
    [] name = "content type" -> Ok(CommonHeaderIDContentType)
    [] name = "kid" -> Ok(CommonHeaderIDKeyID)
    [] name \in {"IV", "iv"} -> Ok(CommonHeaderIDIV)
    [] name = "Partial IV" -> Ok(CommonHeaderIDPartialIV)
    [] name = "counter signature" -> Ok(CommonHeaderIDCounterSignature)
    [] OTHER -> Fail("ErrMissingCOSETagForLabel", 0)

getIDByStringName(name) ==
  CASE name = "alg" -> Ok(CommonHeaderIDAlg)
    [] name = "crit" -> Ok(CommonHeaderIDCrit)
    [] name = "content type" -> Ok(CommonHeaderIDContentType)
    [] name = "kid" -> Ok(CommonHeaderIDKeyID)
    [] name = "IV" -> Ok(CommonHeaderIDIV)
    [] name = "Partial IV" -> Ok(CommonHeaderIDPartialIV)
    [] name = "counter signature" -> Ok(CommonHeaderIDCounterSignature)
    [] OTHER -> Fail("ErrMissingCOSETagForLabel", 0)

\* name is a Go value; the result's val is the number of a CommonHeaderID
GetCommonHeaderIDByName(name) ==
  CASE name.t = "CommonHeaderName" -> getIDByCommonHeaderName(name.s)
    [] name.t = "string" -> getIDByStringName(name.s)
    [] OTHER -> Fail("ErrMissingCOSETagForLabel", 0)

(***************************************************************************)
(* Algorithm Registry (the AlgID / AlgName lookups).                       *)
(***************************************************************************)
AlgPS256ID == -37
AlgES512ID == -36
AlgES384ID == -35
AlgES256ID == -7
AlgPS256Name == "PS256"
AlgES512Name == "ES512"
AlgES384Name == "ES384"
AlgES256Name == "ES256"

getAlgIDByNameString(name) ==
  CASE name = "PS256" -> Ok(AlgPS256ID)
    [] name = "ES256" -> Ok(AlgES256ID)
    [] name = "ES384" -> Ok(AlgES384ID)
    [] name = "ES512" -> Ok(AlgES512ID)
    [] OTHER -> Fail("ErrAlgNotFound", 0)

getAlgIDByAlgName(name) ==
  CASE name = AlgPS256Name -> Ok(AlgPS256ID)
    [] name = AlgES256Name -> Ok(AlgES256ID)
    [] name = AlgES384Name -> Ok(AlgES384ID)
    [] name = AlgES512Name -> Ok(AlgES512ID)
    [] OTHER -> Fail("ErrAlgNotFound", 0)

\* name is a Go value; the result's val is the number of an AlgID
GetAlgIDByName(name) ==
  CASE name.t = "string" -> getAlgIDByNameString(name.s)
    [] name.t = "AlgName" -> getAlgIDByAlgName(name.s)
    [] OTHER -> Fail("ErrAlgNotFound", 0)

getAlgIDByInt(id) ==
  CASE id = -37 -> Ok(AlgPS256ID)
    [] id = -36 -> Ok(AlgES512ID)
    [] id = -35 -> Ok(AlgES384ID)
    [] id = -7 -> Ok(AlgES256ID)
    [] OTHER -> Fail("ErrAlgNotFound", 0)

getAlgNameByInt(id) ==
  CASE id = -37 -> Ok("PS256")
    [] id = -36 -> Ok("ES512")
    [] id = -35 -> Ok("ES384")
    [] id = -7 -> Ok("ES256")
    [] OTHER -> Fail("ErrAlgNotFound", "")

getAlgNameByAlgID(id) ==
  CASE id = AlgPS256ID -> Ok("PS256")
    [] id = AlgES512ID -> Ok("ES512")
    [] id = AlgES384ID -> Ok("ES384")
    [] id = AlgES256ID -> Ok("ES256")
    [] OTHER -> Fail("ErrAlgNotFound", "")

\* GetAlgNameByID that takes an ID as int or AlgID only.
GetAlgNameByIDNoInt64(id) ==
  CASE id.t = "int" -> getAlgNameByInt(id.n)
    [] id.t = "AlgID" -> getAlgNameByAlgID(id.n)
    [] OTHER -> Fail("ErrAlgNotFound", "")

\* id is a Go value; the result's val is the text of an AlgName
GetAlgNameByID(id) ==
  CASE id.t = "int64" -> getAlgNameByInt(id.n)
    [] id.t = "int" -> getAlgNameByInt(id.n)
    [] id.t = "AlgID" -> getAlgNameByAlgID(id.n)
    [] OTHER -> Fail("ErrAlgNotFound", "")

\* Algorithms, the static table of IANA algorithms: name and value of each
Algorithms == <<
   [Name |-> "RSAES-OAEP w/ SHA-512", Value |-> -42],
   [Name |-> "RSAES-OAEP w/ SHA-256", Value |-> -41],
   [Name |-> "RSAES-OAEP w/ RFC 8017 default parameters", Value |-> -40],
   [Name |-> "PS512", Value |-> -39],
   [Name |-> "PS384", Value |-> -38],
   [Name |-> "PS256", Value |-> -37],
   [Name |-> "ES512", Value |-> -36],
   [Name |-> "ES384", Value |-> -35],
   [Name |-> "ECDH-SS + A256KW", Value |-> -34],
   [Name |-> "ECDH-SS + A192KW", Value |-> -33],
   [Name |-> "ECDH-SS + A128KW", Value |-> -32],
   [Name |-> "ECDH-ES + A256KW", Value |-> -31],
   [Name |-> "ECDH-ES + A192KW", Value |-> -30],
   [Name |-> "ECDH-ES + A128KW", Value |-> -29],
   [Name |-> "ECDH-SS + HKDF-512", Value |-> -28],
   [Name |-> "ECDH-SS + HKDF-256", Value |-> -27],
   [Name |-> "ECDH-ES + HKDF-512", Value |-> -26],
   [Name |-> "ECDH-ES + HKDF-256", Value |-> -25],
   [Name |-> "direct+HKDF-AES-256", Value |-> -13],
   [Name |-> "direct+HKDF-AES-128", Value |-> -12],
   [Name |-> "direct+HKDF-SHA-512", Value |-> -11],
   [Name |-> "direct+HKDF-SHA-256", Value |-> -10],
   [Name |-> "EdDSA", Value |-> -8],
   [Name |-> "ES256", Value |-> -7],
   [Name |-> "direct", Value |-> -6],
   [Name |-> "A256KW", Value |-> -5],
   [Name |-> "A192KW", Value |-> -4],
   [Name |-> "A128KW", Value |-> -3],
   [Name |-> "A128GCM", Value |-> 1],
   [Name |-> "A192GCM", Value |-> 2],
   [Name |-> "A256GCM", Value |-> 3],
   [Name |-> "HMAC 256/64", Value |-> 4],
   [Name |-> "HMAC 256/256", Value |-> 5],
   [Name |-> "HMAC 384/384", Value |-> 6],
   [Name |-> "HMAC 512/512", Value |-> 7],
   [Name |-> "AES-CCM-16-64-128", Value |-> 10],
   [Name |-> "AES-CCM-16-64-256", Value |-> 11],
   [Name |-> "AES-CCM-64-64-128", Value |-> 12],
   [Name |-> "AES-CCM-64-64-256", Value |-> 13],
   [Name |-> "AES-MAC 128/64", Value |-> 14],
   [Name |-> "AES-MAC 256/64", Value |-> 15],
   [Name |-> "ChaCha20/Poly1305", Value |-> 24],
   [Name |-> "AES-MAC 128/128", Value |-> 25],
   [Name |-> "AES-MAC 256/128", Value |-> 26],
   [Name |-> "AES-CCM-16-128-128", Value |-> 30],
   [Name |-> "AES-CCM-16-128-256", Value |-> 31],
   [Name |-> "AES-CCM-64-128-128", Value |-> 32],
   [Name |-> "AES-CCM-64-128-256", Value |-> 33]>>

NoAlgorithm == [Name |-> "", Value |-> 0]

\* GetAlgByName(name string): the first entry of the table with that name
GetAlgByName(name) ==
  LET hits == {i \in 1..Len(Algorithms) : Algorithms[i].Name = name}
  IN  IF hits = {} THEN Fail("ErrAlgNamedNotFound", NoAlgorithm)
      ELSE Ok(Algorithms[CHOOSE i \in hits : \A j \in hits : i <= j])

\* GetAlgByValue(value int64): the first entry of the table with that value
GetAlgByValue(value) ==
  LET hits == {i \in 1..Len(Algorithms) : Algorithms[i].Value = value}
  IN  IF hits = {} THEN Fail("ErrAlgValueNotFound", NoAlgorithm)
      ELSE Ok(Algorithms[CHOOSE i \in hits : \A j \in hits : i <= j])

(***************************************************************************)
(* Header Compression Engine (headers.go).                                 *)
(***************************************************************************)
\* CompressEntry with the algorithm substitution left out.
CompressEntryKeepsName(x) ==
  LET tag == GetCommonHeaderIDByName(x.k)
  IN  IF x.k.t = "string" /\ tag.err = "nil"
      THEN [k |-> CommonHeaderID(tag.val), v |-> x.v]
      ELSE x

\* What one pass of the loop of CompressHeaders writes for the entry x.
CompressEntry(x) ==
  LET kok == x.k.t = "string"
      vok == x.v.t = "string"
      tag == GetCommonHeaderIDByName(x.k)
      alg == GetAlgIDByName(x.v)
  IN  IF kok /\ tag.err = "nil"
      THEN [k |-> CommonHeaderID(tag.val),
            v |-> IF x.k.s = "alg" /\ vok /\ alg.err = "nil"
                  THEN AlgID(alg.val) ELSE x.v]
      ELSE x

\* What one pass of the loop of DecompressHeaders writes for the entry x.
DecompressEntry(x) ==
  LET kok == x.k.t = "int"
      vok == x.v.t = "CommonHeaderID"
      label == GetCommonHeaderNameByID(x.k)
      algName == GetAlgNameByID(GoInt64(x.v.n))
  IN  IF kok /\ label.err = "nil"
      THEN [k |-> CommonHeaderName(label.val),
            v |-> IF vok /\ label.val = CommonHeaderNameAlg /\ algName.err = "nil"
                  THEN AlgName(algName.val) ELSE x.v]
      ELSE x

\* The maps a loop `for k, v := range m { out[k'] = v' }` can leave in out:
\* the writes happen in the unspecified order of range, the last write to a
\* key wins, so every written key holds one of the values written to it.
RangeWrites(written) ==
  {c \in SUBSET written : IsMap(c) /\ {x.k : x \in c} = {x.k : x \in written}}

\* The set of maps CompressHeaders(headers) can return (never a nil map).
CompressHeaders(headers) ==
  {MkMap(c) : c \in RangeWrites({CompressEntry(x) : x \in headers.e})}

\* The set of maps DecompressHeaders(headers) can return (never a nil map).
DecompressHeaders(headers) ==
  {MkMap(c) : c \in RangeWrites({DecompressEntry(x) : x \in headers.e})}

(***************************************************************************)
(* Headers: Get and Algorithm (headers.go).                                *)
(***************************************************************************)
MkHeaders(p, u) == [isnil |-> FALSE, Protected |-> p, Unprotected |-> u]
NilHeaders == [isnil |-> TRUE, Protected |-> NilMap, Unprotected |-> NilMap]

getFromMap(headerMap, key) ==
  CASE key.t = "CommonHeaderID" ->
         IF key \in Keys(headerMap) THEN Ok(Lookup(headerMap, key))
         ELSE Fail("ErrKeyNotFound", GoNil)
    [] key.t = "string" ->
         IF key \in Keys(headerMap) THEN Ok(Lookup(headerMap, key))
         ELSE Fail("ErrKeyNotFound", GoNil)
    [] OTHER ->
         IF key \in Keys(headerMap) THEN Ok(Lookup(headerMap, key))
         ELSE Fail("ErrKeyNotFound", GoNil)

\* Get that prefers the protected map instead of reporting a key held by both.
GetProtectedFirst(h, key) ==
  LET p == getFromMap(h.Protected, key)
      u == getFromMap(h.Unprotected, key)
  IN  CASE h.isnil -> Fail("panic", GoNil)
        [] p.err = "nil" -> Ok(p.val)
        [] u.err = "nil" -> Ok(u.val)
        [] OTHER -> Fail("ErrKeyNotFound", GoNil)

\* Headers.Get; reading h.Protected of a nil receiver is a run-time panic
Get(h, key) ==
  LET p == getFromMap(h.Protected, key)
      u == getFromMap(h.Unprotected, key)
      proMissing == p.err = "ErrKeyNotFound"
      unproMissing == u.err = "ErrKeyNotFound"
  IN  CASE h.isnil -> Fail("panic", GoNil)
        [] ~(p.err = "nil" \/ proMissing) -> Fail(p.err, GoNil)
        [] ~(u.err = "nil" \/ unproMissing) -> Fail(u.err, GoNil)
        [] proMissing /\ unproMissing -> Fail("ErrKeyNotFound", GoNil)
        [] ~proMissing /\ ~unproMissing -> Fail("ErrAmbiguousKey", GoNil)
        [] proMissing /\ ~unproMissing -> Ok(u.val)
        [] OTHER -> Ok(p.val)

\* The key representations Headers.Algorithm probes, in its order.
AlgorithmKeyTypes ==
  <<CommonHeaderID(CommonHeaderIDAlg), GoInt(CommonHeaderIDAlg), GoUint64(CommonHeaderIDAlg)>>

\* The loop of Headers.Algorithm from index i on: the value of the first
\* probe that succeeds, or what the last probe left in v.
RECURSIVE AlgorithmProbe(_, _)
AlgorithmProbe(h, i) ==
  LET r == Get(h, AlgorithmKeyTypes[i])
  IN  IF r.err = "nil" \/ i = Len(AlgorithmKeyTypes) THEN r
      ELSE AlgorithmProbe(h, i + 1)

\* The type switch of Headers.Algorithm on the value found.
AlgorithmOfValue(v) ==
  LET r == CASE v.t = "string" -> GetAlgIDByName(v)
             [] v.t = "uint64" -> getAlgIDByInt(v.n)
             [] v.t = "int64" -> getAlgIDByInt(v.n)
             [] v.t = "int" -> getAlgIDByInt(v.n)
             [] OTHER -> Fail("ErrAlgNotFound", 0)
  IN  IF r.err = "nil" THEN r ELSE Fail("ErrAlgNotFound", 0)

\* Headers.Algorithm: the set of outcomes [id, err, h], h the receiver after
\* the call (both maps replaced by a compressed form).
Algorithm(h) ==
  IF h.isnil THEN {[id |-> 0, err |-> "ErrAlgNotFound", h |-> h]}
  ELSE {LET h2 == MkHeaders(p, u)
            r == AlgorithmOfValue(AlgorithmProbe(h2, 1).val)
        IN  [id |-> r.val, err |-> r.err, h |-> h2] :
          p \in CompressHeaders(h.Protected), u \in CompressHeaders(h.Unprotected)}

(***************************************************************************)
(* Byte strings and big integers.                                          *)
(* A []byte is [isnil, b |-> sequence of bytes]; a byte is [v |-> 0..255,  *)
(* of |-> <<>>], or a byte of an integer computed by the curve operation,  *)
(* which carries in `of` what the integer was computed from.  A *big.Int   *)
(* is its magnitude: the big-endian byte sequence without leading zero     *)
(* bytes, which is what b.Bytes() returns and SetBytes reads.              *)
(***************************************************************************)
Byte(x) == [v |-> x, of |-> <<>>]
NilBytes == [isnil |-> TRUE, b |-> <<>>]
BytesOf(seq) == [isnil |-> FALSE, b |-> seq]
Repeat(x, n) == [i \in 1..n |-> x]

\* big.Int.SetBytes: the integer a big-endian byte sequence stands for
RECURSIVE SetBytes(_)
SetBytes(buf) ==
  IF buf # <<>> /\ buf[1] = Byte(0) THEN SetBytes(Tail(buf)) ELSE buf

\* I2OSP that forgets to pad.
I2OSPNoPad(b, n) == IF n > Len(b) THEN b ELSE SubSeq(b, 1, n)

\* I2OSP(b, n), core.go
I2OSP(b, n) ==
  LET os == b
  IN  IF n > Len(os) THEN Repeat(Byte(0), n - Len(os)) \o os
      ELSE SubSeq(os, 1, n)

(***************************************************************************)
(* The encoder and the hash.  Marshal is the repository's CBOR encoder,    *)
(* not part of the modelled files: it is an injective, deterministic       *)
(* function of the value.  A hash is collision free.                       *)
(* The encoder writes a value by its kind, not by its Go type: every       *)
(* integer type is written as the CBOR integer of its value (a uint64      *)
(* above the int64 range stays apart from the negative integers), every    *)
(* string type as a text string.                                           *)
(***************************************************************************)
Marshal(x) == [cbor |-> x]

\* The CBOR data item the encoder writes for the Go value v.
CborValue(v) ==
  CASE v.t \in {"int", "int64", "CommonHeaderID", "AlgID"} -> [t |-> "int", s |-> "", n |-> v.n]
    [] v.t = "uint64" -> [t |-> IF v.n >= 0 THEN "int" ELSE "uint64", s |-> "", n |-> v.n]
    [] v.t \in {"string", "CommonHeaderName", "AlgName"} -> [t |-> "string", s |-> v.s, n |-> 0]
    [] OTHER -> v

\* The CBOR map the encoder writes for the Go map m: one pair per entry, c the
\* number of entries written as that same pair.
CborMap(m) ==
  MkMap({[k |-> CborValue(x.k), v |-> CborValue(x.v),
          c |-> Cardinality({y \in m.e : /\ CborValue(y.k) = CborValue(x.k)
                                         /\ CborValue(y.v) = CborValue(x.v)})] :
           x \in m.e})

EmptyBstr == [empty |-> TRUE, enc |-> Marshal(MkMap({}))]

\* Headers.EncodeProtected: the set of byte strings it can return, or
\* "panic" for a nil receiver.
EncodeProtected(h) ==
  IF h.isnil THEN {[panic |-> TRUE, bstr |-> EmptyBstr]}
  ELSE IF h.Protected.isnil \/ Cardinality(h.Protected.e) < 1
       THEN {[panic |-> FALSE, bstr |-> EmptyBstr]}
       ELSE {[panic |-> FALSE, bstr |-> [empty |-> FALSE, enc |-> Marshal(CborMap(c))]] :
               c \in CompressHeaders(h.Protected)}

ContextSignature == "Signature"

buildAndMarshalSigStructure(bodyProtected, signProtected, external, payload) ==
  Marshal(<<ContextSignature, bodyProtected, signProtected, external, payload>>)

getSigningAlgHashFuncByID(id) ==
  CASE id = AlgPS256ID -> Ok("SHA256")
    [] id = AlgES256ID -> Ok("SHA256")
    [] id = AlgES384ID -> Ok("SHA384")
    [] id = AlgES512ID -> Ok("SHA512")
    [] OTHER -> Fail("ErrAlgNotFound", "")

hashSigStructure(ToBeSigned, hash) == [hash |-> hash, of |-> ToBeSigned]

(***************************************************************************)
(* The ECDSA signer and verifier (algorithms.go).                          *)
(* A key is [id, curve]; the public key of a private key is the same       *)
(* record.  rand decides the nonce of a signature; the model writes a      *)
(* nonce as [r, s]: how many bytes the magnitudes of R and S fall short of *)
(* the byte size of the curve.                                             *)
(***************************************************************************)
getCurveForAlgID(id) ==
  CASE id = AlgES256ID -> Ok("P-256")
    [] id = AlgES384ID -> Ok("P-384")
    [] id = AlgES512ID -> Ok("P-521")
    [] OTHER -> Fail("ErrAlgNotFound", "")

getKeySizeForAlgID(id) ==
  CASE id = AlgES256ID -> Ok(32)
    [] id = AlgES384ID -> Ok(48)
    [] id = AlgES512ID -> Ok(66)
    [] OTHER -> Fail("ErrAlgNotFound", 0)

\* Curve.Params().BitSize
CurveBitSize(curve) ==
  CASE curve = "P-256" -> 256
    [] curve = "P-384" -> 384
    [] OTHER -> 521

\* keyBytes of ECDSASigner.Sign: the bit size rounded up to bytes
CurveKeyBytes(curve) ==
  LET curveBits == CurveBitSize(curve)
      keyBytes == curveBits \div 8
  IN  IF curveBits % 8 > 0 THEN keyBytes + 1 ELSE keyBytes

supportedECDSAAlgs == <<AlgES256Name, AlgES384Name, AlgES512Name>>

SupportsAlgorithm(algName) ==
  \E i \in 1..Len(supportedECDSAAlgs) : supportedECDSAAlgs[i] = algName

NoSigner == [isnil |-> TRUE, algID |-> 0, key |-> [id |-> 0, curve |-> ""]]

\* NewECDSASignerFromKey(algName, privateKey): [err, val |-> the signer]
NewECDSASignerFromKey(algName, privateKey) ==
  LET algID == GetAlgIDByName(Str(algName))
      curve == getCurveForAlgID(algID.val)
  IN  CASE ~SupportsAlgorithm(algName) -> Fail("ErrUnsupportedECDSAAlgorithm", NoSigner)
        [] algID.err # "nil" -> Fail(algID.err, NoSigner)
        [] curve.err # "nil" -> Fail(curve.err, NoSigner)
        [] privateKey.curve # curve.val -> Fail("ErrKeyCurve", NoSigner)
        [] OTHER -> Ok([isnil |-> FALSE, algID |-> algID.val, key |-> privateKey])

\* NewSigner(algName), the generated key being the key keyID of the bound curve
NewSigner(algName, keyID) ==
  LET algID == GetAlgIDByName(Str(algName))
      curve == getCurveForAlgID(algID.val)
  IN  CASE ~SupportsAlgorithm(algName) -> Fail("ErrUnsupportedECDSAAlgorithm", NoSigner)
        [] algID.err # "nil" -> Fail(algID.err, NoSigner)
        [] curve.err # "nil" -> Fail(curve.err, NoSigner)
        [] OTHER -> Ok([isnil |-> FALSE, algID |-> algID.val,
                        key |-> [id |-> keyID, curve |-> curve.val]])

\* NewSignerFromKey(algName, privateKey) of the package: it looks the name
\* up and returns its named results as they are, the signer never assigned
NewSignerFromKey(algName, privateKey) ==
  LET algID == GetAlgIDByName(Str(algName))
  IN  IF algID.err # "nil" THEN Fail(algID.err, NoSigner)
      ELSE Ok(NoSigner)

\* ECDSASigner.Verifier
Verifier(s) == [isnil |-> FALSE, algID |-> s.algID, key |-> s.key]

\* ecdsa.Sign: the pair (R, S) for a key, a digest and the nonce drawn from
\* rand.  R depends on the nonce alone; S on the key, the digest and the
\* nonce.  Both are at least 1 and below the group order, so their
\* magnitudes have at most CurveKeyBytes bytes (the first byte of a
\* full-size P-521 integer is at most 1).  The first and the last byte of
\* S stand for the bytes that depend on what was signed: S and N - S differ
\* in both.
ecdsaR(curve, nonce) ==
  <<Byte(1)>> \o Repeat(Byte(255), CurveKeyBytes(curve) - nonce.r - 1)

ecdsaSByte(i, key, digest, nonce, twin) ==
  [v |-> i, of |-> <<[key |-> key.id, digest |-> digest, nonce |-> nonce, twin |-> twin]>>]

ecdsaS(key, digest, nonce, twin) ==
  LET len == CurveKeyBytes(key.curve) - nonce.s
  IN  IF len < 2 THEN <<ecdsaSByte(1, key, digest, nonce, twin)>>
      ELSE <<ecdsaSByte(1, key, digest, nonce, twin)>>
             \o Repeat(Byte(255), len - 2)
             \o <<ecdsaSByte(2, key, digest, nonce, twin)>>

ecdsaSign(priv, digest, nonce) ==
  [R |-> ecdsaR(priv.curve, nonce), S |-> ecdsaS(priv, digest, nonce, FALSE)]

\* ecdsa.Verify: (r, s) is accepted exactly when it is a signature of the
\* digest under the key: a pair ecdsa.Sign can return for some nonce, or
\* that pair with S replaced by N - S (written twin), which the curve
\* equation accepts as well.
ecdsaVerify(pub, digest, r, s) ==
  /\ r # <<>>
  /\ s # <<>>
  /\ s[1].of # <<>>
  /\ LET bound == s[1].of[1]
     IN  /\ bound.key = pub.id
         /\ bound.digest = digest
         /\ s = ecdsaS(pub, digest, bound.nonce, bound.twin)
         /\ r = ecdsaR(pub.curve, bound.nonce)

\* ECDSASigner.Sign(rand, digest): [err, val |-> signature bytes]
ECDSASignerSign(s, digest, nonce) ==
  LET sig == ecdsaSign(s.key, digest, nonce)
      n == CurveKeyBytes(s.key.curve)
  IN  Ok(BytesOf(I2OSP(sig.R, n) \o I2OSP(sig.S, n)))

\* ECDSAVerifier.Verify that stops after the length check.
ECDSAVerifierVerifyLengthOnly(v, digest, signature) ==
  LET keySize == getKeySizeForAlgID(v.algID)
  IN  CASE v.isnil -> "ErrNilVerifier"
        [] keySize.err # "nil" -> keySize.err
        [] keySize.val < 1 -> "ErrNoKeySize"
        [] Len(signature.b) # 2 * keySize.val -> "ErrInvalidSignatureLength"
        [] OTHER -> "nil"

\* ECDSAVerifier.Verify without the length check: the bytes are split at
\* keySize, or at their end when they are shorter.
ECDSAVerifierVerifyNoLengthCheck(v, digest, signature) ==
  LET keySize == getKeySizeForAlgID(v.algID)
      cut == IF Len(signature.b) < keySize.val THEN Len(signature.b) ELSE keySize.val
      r == SetBytes(SubSeq(signature.b, 1, cut))
      s == SetBytes(SubSeq(signature.b, cut + 1, Len(signature.b)))
  IN  CASE v.isnil -> "ErrNilVerifier"
        [] keySize.err # "nil" -> keySize.err
        [] keySize.val < 1 -> "ErrNoKeySize"
        [] ecdsaVerify(v.key, digest, r, s) -> "nil"
        [] OTHER -> "ErrECDSAVerification"

\* ECDSAVerifier.Verify(digest, signature): the error it returns
ECDSAVerifierVerify(v, digest, signature) ==
  LET keySize == getKeySizeForAlgID(v.algID)
      r == SetBytes(SubSeq(signature.b, 1, keySize.val))
      s == SetBytes(SubSeq(signature.b, keySize.val + 1, Len(signature.b)))
  IN  CASE v.isnil -> "ErrNilVerifier"
        [] keySize.err # "nil" -> keySize.err
        [] keySize.val < 1 -> "ErrNoKeySize"
        [] Len(signature.b) # 2 * keySize.val -> "ErrInvalidSignatureLength"
        [] ecdsaVerify(v.key, digest, r, s) -> "nil"
        [] OTHER -> "ErrECDSAVerification"

(***************************************************************************)
(* Signature and SignMessage (signature.go, sign message file).            *)
(* A []Signature is [isnil, s |-> sequence]; index i of the code is index  *)
(* i + 1 here.  Sign and Verify return the set of their possible outcomes  *)
(* [msg, err, calls]: the message as the call leaves it, the error         *)
(* returned ("panic" and "fatal" for a run-time panic and log.Fatalf), and *)
(* the indexes whose signer or verifier was invoked, in order.             *)
(***************************************************************************)
Signature(h, b) == [Headers |-> h, SignatureBytes |-> b]
NewSignature == Signature(MkHeaders(MkMap({}), MkMap({})), NilBytes)

NilSignatures == [isnil |-> TRUE, s |-> <<>>]
SignMessage(h, p, sigs) == [Headers |-> h, Payload |-> p, Signatures |-> sigs]
NewSignMessage == SignMessage(MkHeaders(MkMap({}), MkMap({})), NilBytes, NilSignatures)

AddSignature(m, sig) ==
  [m EXCEPT !.Signatures = [isnil |-> FALSE, s |-> Append(m.Signatures.s, sig)]]

NoToBeSigned == buildAndMarshalSigStructure(EmptyBstr, EmptyBstr, NilBytes, NilBytes)
NoDigest == hashSigStructure(NoToBeSigned, "")

\* SignMessage.SigStructure(external, signature): set of [err, val]
SigStructure(m, external, signature) ==
  {IF b.panic \/ sp.panic THEN Fail("panic", NoToBeSigned)
   ELSE Ok(buildAndMarshalSigStructure(b.bstr, sp.bstr, external, m.Payload)) :
     b \in EncodeProtected(m.Headers), sp \in EncodeProtected(signature.Headers)}

\* SignMessage.SignatureDigest(external, signature): set of
\* [err, val |-> digest, h |-> the signature's headers after the call]
SignatureDigest(m, external, signature) ==
  UNION {
    IF t.err # "nil"
    THEN {[err |-> t.err, val |-> NoDigest, h |-> signature.Headers]}
    ELSE {LET hash == getSigningAlgHashFuncByID(a.id)
          IN  CASE a.err # "nil" -> [err |-> a.err, val |-> NoDigest, h |-> a.h]
                [] hash.err # "nil" -> [err |-> hash.err, val |-> NoDigest, h |-> a.h]
                [] OTHER -> [err |-> "nil", val |-> hashSigStructure(t.val, hash.val), h |-> a.h] :
            a \in Algorithm(signature.Headers)} :
    t \in SigStructure(m, external, signature)}

Outcome(m, err, calls) == [msg |-> m, err |-> err, calls |-> calls]

\* signature.Headers is a pointer: what Algorithm writes is seen in the message
WithSigHeaders(m, i, h) == [m EXCEPT !.Signatures.s[i].Headers = h]
\* m.Signatures[i].SignatureBytes = signatureBytes
WithSigBytes(m, i, b) == [m EXCEPT !.Signatures.s[i].SignatureBytes = b]

\* rand: a stream of nonces; the signer of index i reads its next element
RandRead(rand, i) == rand[((i - 1) % Len(rand)) + 1]

\* Sign without the comparison of the two lengths.
RECURSIVE SignFrom(_, _, _, _, _, _)
SignNoCountCheck(m, rand, external, signers) ==
  IF m.Signatures.isnil THEN {Outcome(m, "ErrNilSignatures", <<>>)}
  ELSE IF Len(m.Signatures.s) < 1 THEN {Outcome(m, "ErrNoSignatures", <<>>)}
  ELSE SignFrom(m, 1, rand, external, signers, <<>>)

\* the loop body of Sign without the comparison of the two algorithms
SignWithNoAlgCheck(m, i, algID, digest, rand, external, signers, calls) ==
  IF i > Len(signers) THEN {Outcome(m, "panic", calls)}
  ELSE LET signer == signers[i]
           made == ECDSASignerSign(signer, digest, RandRead(rand, i))
       IN  IF signer.isnil THEN {Outcome(m, "fatal", calls)}
           ELSE IF made.err # "nil" THEN {Outcome(m, made.err, Append(calls, i))}
           ELSE SignFrom(WithSigBytes(m, i, made.val), i + 1, rand, external,
                         signers, Append(calls, i))

\* the loop body of Sign from signers[i] on, for the algorithm and digest found
SignWith(m, i, algID, digest, rand, external, signers, calls) ==
  IF i > Len(signers) THEN {Outcome(m, "panic", calls)}
  ELSE LET signer == signers[i]
           made == ECDSASignerSign(signer, digest, RandRead(rand, i))
       IN  IF signer.isnil THEN {Outcome(m, "fatal", calls)}
           ELSE IF algID # signer.algID THEN {Outcome(m, "ErrSignerAlg", calls)}
           ELSE IF made.err # "nil" THEN {Outcome(m, made.err, Append(calls, i))}
           ELSE SignFrom(WithSigBytes(m, i, made.val), i + 1, rand, external,
                         signers, Append(calls, i))

\* the loop of Sign from index i on
SignFrom(m, i, rand, external, signers, calls) ==
  IF i > Len(m.Signatures.s) THEN {Outcome(m, "nil", calls)}
  ELSE LET signature == m.Signatures.s[i]
       IN  IF signature.Headers.isnil THEN {Outcome(m, "ErrNilSigHeader", calls)}
           ELSE IF signature.Headers.Protected.isnil
                THEN {Outcome(m, "ErrNilSigProtectedHeaders", calls)}
           ELSE IF ~signature.SignatureBytes.isnil \/ Len(signature.SignatureBytes.b) > 0
                THEN {Outcome(m, "ErrAlreadySigned", calls)}
           ELSE UNION {
             LET m1 == WithSigHeaders(m, i, a.h)
             IN  IF a.err # "nil" THEN {Outcome(m1, a.err, calls)}
                 ELSE IF a.id > -1 THEN {Outcome(m1, "ErrInvalidAlg", calls)}
                 ELSE UNION {
                   LET m2 == WithSigHeaders(m1, i, d.h)
                   IN  IF d.err # "nil" THEN {Outcome(m2, d.err, calls)}
                       ELSE SignWith(m2, i, a.id, d.val, rand, external, signers, calls) :
                   d \in SignatureDigest(m1, external, m1.Signatures.s[i])} :
             a \in Algorithm(signature.Headers)}

\* Sign that gives back the message as it was when it fails.
SignWithRollback(m, rand, external, signers) ==
  IF m.Signatures.isnil THEN {Outcome(m, "ErrNilSignatures", <<>>)}
  ELSE IF Len(m.Signatures.s) < 1 THEN {Outcome(m, "ErrNoSignatures", <<>>)}
  ELSE IF Len(m.Signatures.s) # Len(signers) THEN {Outcome(m, "ErrSignerCount", <<>>)}
  ELSE {IF o.err # "nil" THEN Outcome(m, o.err, o.calls) ELSE o :
          o \in SignFrom(m, 1, rand, external, signers, <<>>)}

\* Sign that signs over bytes already present.
SignOverwriting(m, rand, external, signers) ==
  LET cleared == [m EXCEPT !.Signatures.s =
                    [i \in 1..Len(m.Signatures.s) |->
                       [m.Signatures.s[i] EXCEPT !.SignatureBytes = NilBytes]]]
  IN  IF m.Signatures.isnil THEN {Outcome(m, "ErrNilSignatures", <<>>)}
      ELSE IF Len(m.Signatures.s) < 1 THEN {Outcome(m, "ErrNoSignatures", <<>>)}
      ELSE IF Len(m.Signatures.s) # Len(signers) THEN {Outcome(m, "ErrSignerCount", <<>>)}
      ELSE SignFrom(cleared, 1, rand, external, signers, <<>>)

\* SignMessage.Sign(rand, external, signers)
Sign(m, rand, external, signers) ==
  IF m.Signatures.isnil THEN {Outcome(m, "ErrNilSignatures", <<>>)}
  ELSE IF Len(m.Signatures.s) < 1 THEN {Outcome(m, "ErrNoSignatures", <<>>)}
  ELSE IF Len(m.Signatures.s) # Len(signers) THEN {Outcome(m, "ErrSignerCount", <<>>)}
  ELSE SignFrom(m, 1, rand, external, signers, <<>>)

\* the loop of Verify from index i on
RECURSIVE VerifyFrom(_, _, _, _, _)
VerifyFrom(m, i, external, verifiers, calls) ==
  IF i > Len(m.Signatures.s) THEN {Outcome(m, "nil", calls)}
  ELSE LET signature == m.Signatures.s[i]
       IN  IF signature.Headers.isnil THEN {Outcome(m, "ErrNilSigHeader", calls)}
           ELSE IF signature.Headers.Protected.isnil
                THEN {Outcome(m, "ErrNilSigProtectedHeaders", calls)}
           ELSE IF signature.SignatureBytes.isnil \/ Len(signature.SignatureBytes.b) < 1
                THEN {Outcome(m, "ErrMissingSignatureBytes", calls)}
           ELSE UNION {
             LET m1 == WithSigHeaders(m, i, a.h)
             IN  IF a.err # "nil" THEN {Outcome(m1, a.err, calls)}
                 ELSE IF a.id > -1 THEN {Outcome(m1, "ErrInvalidAlg", calls)}
                 ELSE UNION {
                   LET m2 == WithSigHeaders(m1, i, d.h)
                       err == ECDSAVerifierVerify(verifiers[i], d.val, signature.SignatureBytes)
                   IN  IF d.err # "nil" THEN {Outcome(m2, d.err, calls)}
                       ELSE IF i > Len(verifiers) THEN {Outcome(m2, "panic", calls)}
                       ELSE IF err # "nil" THEN {Outcome(m2, err, Append(calls, i))}
                       ELSE VerifyFrom(m2, i + 1, external, verifiers, Append(calls, i)) :
                   d \in SignatureDigest(m1, external, m1.Signatures.s[i])} :
             a \in Algorithm(signature.Headers)}

\* Verify that looks at the first Signature only.
VerifyFirstOnly(m, external, verifiers) ==
  IF m.Signatures.isnil \/ Len(m.Signatures.s) < 1 THEN {Outcome(m, "nil", <<>>)}
  ELSE {Outcome(m, o.err, o.calls) :
          o \in VerifyFrom([m EXCEPT !.Signatures.s = <<m.Signatures.s[1]>>], 1,
                           external, verifiers, <<>>)}

\* Verify with the checks Sign makes of the list.
VerifyRejectingEmpty(m, external, verifiers) ==
  IF m.Signatures.isnil THEN {Outcome(m, "ErrNilSignatures", <<>>)}
  ELSE IF Len(m.Signatures.s) < 1 THEN {Outcome(m, "ErrNoSignatures", <<>>)}
  ELSE VerifyFrom(m, 1, external, verifiers, <<>>)

\* SignMessage.Verify(external, verifiers)
Verify(m, external, verifiers) ==
  IF m.Signatures.isnil \/ Len(m.Signatures.s) < 1 THEN {Outcome(m, "nil", <<>>)}
  ELSE VerifyFrom(m, 1, external, verifiers, <<>>)

(***************************************************************************)
(* State.  hdr is the Headers value under test, arg the arguments of the   *)
(* last call (the key given to Get; external, the signers or verifiers and *)
(* rand given to Sign and Verify), op the operation that ran last ("none"  *)
(* before any), ret what it returned: err, the value val, the map out, the *)
(* algorithm id.  msg is the SignMessage; hist remembers the first         *)
(* successful Sign: what was signed, with what, and the bytes it wrote.    *)
(***************************************************************************)
VARIABLES hdr, arg, op, ret, msg, hist

vars == <<hdr, arg, op, ret, msg, hist>>

NoHist == [ok |-> FALSE, ext |-> NilBytes, signers |-> <<>>, payload |-> NilBytes,
           sigs |-> <<>>]

NoRet == [err |-> "nil", val |-> GoNil, out |-> NilMap, id |-> 0, h |-> NilHeaders]

\* The sets of at most n keys, and the map that gives each key k of K the value f[k].
KeySetsUpTo(keys, n) == {K \in SUBSET keys : Cardinality(K) <= n}
MapOf(K, f) == MkMap({[k |-> key, v |-> f[key]] : key \in K})

(***************************************************************************)
(* SpecCompress: the compression engine applied to bounded header maps.    *)
(***************************************************************************)
CompressKeys ==
  {Str("alg"), Str("kid"), Str("content type"), Str("unknown"), Str("ALG"),
   CommonHeaderID(1), CommonHeaderID(4), GoInt(1), GoInt(4), GoInt(777),
   CommonHeaderName("alg"), GoUint64(1)}

CompressValues ==
  {Str("ES256"), Str("PS256"), Str("A128GCM"), GoInt(-7), GoBool(TRUE),
   CommonHeaderID(-7), AlgID(-7)}

InitCompress ==
  /\ \E K \in KeySetsUpTo(CompressKeys, MaxEntries) :
       \E f \in [K -> CompressValues] :
         hdr = MkHeaders(MapOf(K, f), MkMap({}))
  /\ arg = GoNil
  /\ op = "none"
  /\ ret = NoRet
  /\ msg = NewSignMessage
  /\ hist = NoHist

\* compressed := CompressHeaders(hdr.Protected)
DoCompress ==
  /\ op = "none"
  /\ \E c \in CompressHeaders(hdr.Protected) :
       ret' = [NoRet EXCEPT !.out = c]
  /\ op' = "CompressHeaders"
  /\ UNCHANGED <<hdr, arg, msg, hist>>

\* decompressed := DecompressHeaders(hdr.Protected)
DoDecompress ==
  /\ op = "none"
  /\ \E d \in DecompressHeaders(hdr.Protected) :
       ret' = [NoRet EXCEPT !.out = d]
  /\ op' = "DecompressHeaders"
  /\ UNCHANGED <<hdr, arg, msg, hist>>

\* roundtrip := DecompressHeaders(CompressHeaders(hdr.Protected))
DoRoundTrip ==
  /\ op = "none"
  /\ \E c \in CompressHeaders(hdr.Protected) :
       \E d \in DecompressHeaders(c) :
         ret' = [NoRet EXCEPT !.out = d]
  /\ op' = "RoundTrip"
  /\ UNCHANGED <<hdr, arg, msg, hist>>

NextCompress == DoCompress \/ DoDecompress \/ DoRoundTrip

SpecCompress == InitCompress /\ [][NextCompress]_vars

(***************************************************************************)
(* SpecHeaders: Headers.Get and Headers.Algorithm on bounded Headers.      *)
(* hdr stays the Headers as given; ret.h is the receiver after the call.   *)
(***************************************************************************)
HeaderKeys ==
  {Str("alg"), CommonHeaderID(1), GoInt(1), GoUint64(1), GoInt64(1), Str("kid")}

HeaderValues ==
  {Str("ES256"), Str("foo"), GoInt(-7), GoInt64(-35), GoUint64(-36), GoInt(1), AlgID(-7)}

\* A map of a Headers under test: the entries of MapOf(K, f), or the nil map
\* in the place of the empty one.
HeaderMapChoices(K, f) == {MapOf(K, f)} \cup (IF K = {} THEN {NilMap} ELSE {})

InitHeaders ==
  /\ \/ hdr = NilHeaders
     \/ \E Kp \in KeySetsUpTo(HeaderKeys, MaxHdrEntries) :
          \E Ku \in KeySetsUpTo(HeaderKeys, MaxHdrEntries - Cardinality(Kp)) :
            \E fp \in [Kp -> HeaderValues], fu \in [Ku -> HeaderValues] :
              \E p \in HeaderMapChoices(Kp, fp), u \in HeaderMapChoices(Ku, fu) :
                hdr = MkHeaders(p, u)
  /\ arg = GoNil
  /\ op = "none"
  /\ ret = NoRet
  /\ msg = NewSignMessage
  /\ hist = NoHist

\* val, err := hdr.Get(key)
DoGet ==
  /\ op = "none"
  /\ \E key \in HeaderKeys :
       /\ arg' = key
       /\ ret' = [NoRet EXCEPT !.err = Get(hdr, key).err, !.val = Get(hdr, key).val,
                               !.h = hdr]
  /\ op' = "Get"
  /\ UNCHANGED <<hdr, msg, hist>>

\* id, err := hdr.Algorithm()
DoAlgorithm ==
  /\ op = "none"
  /\ \E r \in Algorithm(hdr) :
       ret' = [NoRet EXCEPT !.err = r.err, !.id = r.id, !.h = r.h]
  /\ op' = "Algorithm"
  /\ UNCHANGED <<hdr, arg, msg, hist>>

NextHeaders == DoGet \/ DoAlgorithm

SpecHeaders == InitHeaders /\ [][NextHeaders]_vars

(***************************************************************************)
(* Spec: a client builds a SignMessage (headers, payload, Signatures),     *)
(* signs it, possibly changes it, and verifies it.                         *)
(***************************************************************************)
ExternalChoices == {NilBytes, BytesOf(<<Byte(9)>>)}
PayloadChoices == {BytesOf(<<Byte(104), Byte(105)>>)}
MsgHeaderChoices ==
  {MkHeaders(MkMap({[k |-> Str("kid"), v |-> Str("k1")]}), MkMap({}))}

\* NewSignature() with the algorithm declared in the protected headers
SignatureWith(k, v) ==
  Signature(MkHeaders(MkMap({[k |-> k, v |-> v]}), MkMap({})), NilBytes)

SignatureChoices ==
  {SignatureWith(Str("alg"), Str("ES256")),
   SignatureWith(Str("alg"), GoInt(-7)),
   SignatureWith(GoUint64(1), GoInt64(-35)),
   SignatureWith(Str("alg"), GoInt(1)),
   Signature(NilHeaders, NilBytes),
   Signature(MkHeaders(NilMap, MkMap({})), NilBytes)}

SignerES256 == NewSigner("ES256", 1).val
SignerES384 == NewSigner("ES384", 2).val
SignerChoices == {SignerES256, SignerES384}
VerifierChoices == {Verifier(sg) : sg \in SignerChoices}

\* the lists of n elements of S, one list shorter and one longer than n
ListsFor(S, one, n) ==
  [1..n -> S] \cup {Repeat(one, n + 1)} \cup (IF n > 0 THEN {Repeat(one, n - 1)} ELSE {})

NonceA == [r |-> 0, s |-> 0]
NonceB == [r |-> 1, s |-> 2]
RandChoices == {<<NonceA, NonceB>>, <<NonceB, NonceA>>}

BuildOps == {"NewSignMessage", "SetHeaders", "SetPayload", "SetSignatures", "AddSignature"}
TamperOps == {"TamperSignature", "ReplaceSignature", "TamperPayload", "SetSignatureHeaders"}

SigBytesOf(m) == [i \in 1..Len(m.Signatures.s) |-> m.Signatures.s[i].SignatureBytes]
PairedVerifiers(signers) == [i \in 1..Len(signers) |-> Verifier(signers[i])]

Init ==
  /\ msg = NewSignMessage
  /\ op = "NewSignMessage"
  /\ arg = [ext |-> NilBytes, who |-> <<>>, rand |-> <<>>]
  /\ ret = [err |-> "nil", calls |-> <<>>, first |-> FALSE]
  /\ hist = NoHist
  /\ hdr = NilHeaders

\* message.Headers = h
DoSetHeaders ==
  /\ op = "NewSignMessage"
  /\ \E h \in MsgHeaderChoices : msg' = [msg EXCEPT !.Headers = h]
  /\ op' = "SetHeaders"
  /\ UNCHANGED <<hdr, arg, ret, hist>>

\* message.Payload = p
DoSetPayload ==
  /\ op \in {"NewSignMessage", "SetHeaders"}
  /\ \E p \in PayloadChoices : msg' = [msg EXCEPT !.Payload = p]
  /\ op' = "SetPayload"
  /\ UNCHANGED <<hdr, arg, ret, hist>>

\* message.Signatures = []Signature{}
DoSetSignatures ==
  /\ op \in {"NewSignMessage", "SetHeaders", "SetPayload"}
  /\ msg' = [msg EXCEPT !.Signatures = [isnil |-> FALSE, s |-> <<>>]]
  /\ op' = "SetSignatures"
  /\ UNCHANGED <<hdr, arg, ret, hist>>

\* message.AddSignature(sig)
DoAddSignature ==
  /\ op \in BuildOps
  /\ Len(msg.Signatures.s) < MaxSigs
  /\ \E sig \in SignatureChoices : msg' = AddSignature(msg, sig)
  /\ op' = "AddSignature"
  /\ UNCHANGED <<hdr, arg, ret, hist>>

\* err := message.Sign(rand, external, signers); a message is signed at most
\* twice, the second time after a Sign that invoked a signer
DoSign ==
  /\ op \in BuildOps \/ (op = "Sign" /\ ret.first /\ ret.calls # <<>>)
  /\ \E rand \in RandChoices, external \in ExternalChoices,
        signers \in ListsFor(SignerChoices, SignerES256, Len(msg.Signatures.s)) :
       \E o \in Sign(msg, rand, external, signers) :
         /\ msg' = o.msg
         /\ arg' = [ext |-> external, who |-> signers, rand |-> rand]
         /\ ret' = [err |-> o.err, calls |-> o.calls, first |-> op # "Sign"]
         /\ hist' = IF op # "Sign" /\ o.err = "nil"
                    THEN [ok |-> TRUE, ext |-> external, signers |-> signers,
                          payload |-> msg.Payload, sigs |-> SigBytesOf(o.msg)]
                    ELSE hist
  /\ op' = "Sign"
  /\ UNCHANGED hdr

\* err := message.Verify(external, verifiers); the run ends with it
DoVerify ==
  /\ op \in BuildOps \cup TamperOps \/ (op = "Sign" /\ ret.first /\ ret.calls # <<>>)
  /\ \E external \in ExternalChoices,
        verifiers \in ListsFor(VerifierChoices, Verifier(SignerES256), Len(msg.Signatures.s)) :
       \E o \in Verify(msg, external, verifiers) :
         /\ msg' = o.msg
         /\ arg' = [ext |-> external, who |-> verifiers, rand |-> <<>>]
         /\ ret' = [err |-> o.err, calls |-> o.calls, first |-> FALSE]
  /\ op' = "Verify"
  /\ UNCHANGED <<hdr, hist>>

\* The places of a signature a client overwrites, and what it writes there.
TamperPositions(b) ==
  {1, Len(b) \div 2, (Len(b) \div 2) + 1, Len(b)} \cup {i \in 1..Len(b) : b[i].of # <<>>}

Twin(byte) ==
  IF byte.of = <<>> THEN byte
  ELSE [byte EXCEPT !.of = <<[byte.of[1] EXCEPT !.twin = ~byte.of[1].twin]>>]

TamperBytes(old) == {Byte(0), Byte(254), Twin(old)} \ {old}

\* the encoding of (R, N - S) for the encoding of (R, S)
Malleated(b) == [i \in 1..Len(b) |-> IF i > Len(b) \div 2 THEN Twin(b[i]) ELSE b[i]]

\* message.Signatures[i].SignatureBytes[pos] = byte, after a successful Sign
DoTamperSignature ==
  /\ op = "Sign" /\ ret.first /\ ret.err = "nil"
  /\ \E i \in 1..Len(msg.Signatures.s) :
       LET b == msg.Signatures.s[i].SignatureBytes.b
       IN  \E pos \in TamperPositions(b) : \E byte \in TamperBytes(b[pos]) :
             msg' = WithSigBytes(msg, i, BytesOf([b EXCEPT ![pos] = byte]))
  /\ op' = "TamperSignature"
  /\ UNCHANGED <<hdr, arg, ret, hist>>

\* message.Signatures[i].SignatureBytes = other bytes, after a successful Sign
DoReplaceSignature ==
  /\ op = "Sign" /\ ret.first /\ ret.err = "nil"
  /\ \E i \in 1..Len(msg.Signatures.s) :
       LET b == msg.Signatures.s[i].SignatureBytes.b
       IN  \E other \in {Malleated(b), SubSeq(b, 1, Len(b) - 1), b \o <<Byte(0)>>} :
             msg' = WithSigBytes(msg, i, BytesOf(other))
  /\ op' = "ReplaceSignature"
  /\ UNCHANGED <<hdr, arg, ret, hist>>

\* message.Payload[0] = byte, or message.Payload = p, after a successful Sign
DoTamperPayload ==
  /\ op = "Sign" /\ ret.first /\ ret.err = "nil"
  /\ \E p \in {NilBytes, BytesOf(<<Byte(104), Byte(105)>>), BytesOf(<<Byte(0), Byte(105)>>),
               BytesOf(<<Byte(104)>>)} \ {msg.Payload} :
       msg' = [msg EXCEPT !.Payload = p]
  /\ op' = "TamperPayload"
  /\ UNCHANGED <<hdr, arg, ret, hist>>

\* message.Signatures[i].Headers = h with the headers of another Signature,
\* after a successful Sign
DoSetSignatureHeaders ==
  /\ op = "Sign" /\ ret.first /\ ret.err = "nil"
  /\ \E i \in 1..Len(msg.Signatures.s) : \E sig \in SignatureChoices :
       /\ sig.Headers # msg.Signatures.s[i].Headers
       /\ msg' = WithSigHeaders(msg, i, sig.Headers)
  /\ op' = "SetSignatureHeaders"
  /\ UNCHANGED <<hdr, arg, ret, hist>>

Next ==
  \/ DoSetHeaders
  \/ DoSetPayload
  \/ DoSetSignatures
  \/ DoAddSignature
  \/ DoSign
  \/ DoVerify
  \/ DoTamperSignature
  \/ DoReplaceSignature
  \/ DoTamperPayload
  \/ DoSetSignatureHeaders

Spec == Init /\ [][Next]_vars

(***************************************************************************)
(* SpecECDSA: a signer made by NewSigner signs a digest, a verifier checks *)
(* the bytes.  arg is [signer, digest, nonce], ret is [err, val |-> the    *)
(* bytes, R, S |-> the integers the curve operation produced].             *)
(***************************************************************************)
ECDSAAlgNames == {AlgES256Name, AlgES384Name, AlgES512Name}
ECDSAKeyIDs == {1, 2}
ECDSASigners == {NewSigner(name, k).val : name \in ECDSAAlgNames, k \in ECDSAKeyIDs}

ECDSADigests(algID) ==
  {hashSigStructure(buildAndMarshalSigStructure(EmptyBstr, EmptyBstr, NilBytes, p),
                    getSigningAlgHashFuncByID(algID).val) :
     p \in PayloadChoices \cup {NilBytes}}

\* the nonces rand can yield: R and S of full size, up to MaxShort bytes
\* short of it, or of a single byte
ECDSANonces(curve) ==
  LET short == (0..MaxShort) \cup {CurveKeyBytes(curve) - 1}
  IN  {[r |-> x, s |-> y] : x \in short, y \in short}

NoECDSARet == [err |-> "nil", val |-> NilBytes, R |-> <<>>, S |-> <<>>]

InitECDSA ==
  /\ \E signer \in ECDSASigners : \E digest \in ECDSADigests(signer.algID) :
       arg = [signer |-> signer, digest |-> digest, nonce |-> NonceA,
              verifier |-> Verifier(signer), vdigest |-> digest, tested |-> NilBytes]
  /\ op = "none"
  /\ ret = NoECDSARet
  /\ hdr = NilHeaders
  /\ msg = NewSignMessage
  /\ hist = NoHist

\* signature, err := signer.Sign(rand, digest)
DoECDSASign ==
  /\ op = "none"
  /\ \E nonce \in ECDSANonces(arg.signer.key.curve) :
       LET r == ECDSASignerSign(arg.signer, arg.digest, nonce)
           sig == ecdsaSign(arg.signer.key, arg.digest, nonce)
       IN  /\ arg' = [arg EXCEPT !.nonce = nonce]
           /\ ret' = [err |-> r.err, val |-> r.val, R |-> sig.R, S |-> sig.S]
  /\ op' = "ECDSASign"
  /\ UNCHANGED <<hdr, msg, hist>>

\* the byte strings a caller hands to Verify for a signature b: b itself,
\* the encoding of (R, N - S), b with one byte overwritten, b without its
\* last byte, b with a byte appended, and no bytes at all
ECDSATested(b) ==
  {BytesOf(b), BytesOf(Malleated(b)), BytesOf(SubSeq(b, 1, Len(b) - 1)),
   BytesOf(b \o <<Byte(0)>>), NilBytes}
    \cup UNION {{BytesOf([b EXCEPT ![pos] = byte]) : byte \in {Byte(0), Byte(254)} \ {b[pos]}} :
                  pos \in TamperPositions(b)}

\* err := verifier.Verify(digest, signature), for the verifier of some signer
DoECDSAVerify ==
  /\ op = "ECDSASign"
  /\ \E signer \in ECDSASigners : \E digest \in ECDSADigests(arg.signer.algID) :
     \E tested \in ECDSATested(ret.val.b) :
       /\ arg' = [arg EXCEPT !.verifier = Verifier(signer), !.vdigest = digest,
                             !.tested = tested]
       /\ ret' = [ret EXCEPT !.err = ECDSAVerifierVerify(Verifier(signer), digest, tested)]
  /\ op' = "ECDSAVerify"
  /\ UNCHANGED <<hdr, msg, hist>>

NextECDSA == DoECDSASign \/ DoECDSAVerify

SpecECDSA == InitECDSA /\ [][NextECDSA]_vars

(***************************************************************************)
(* SpecSigner: the constructors of signers, each called once with an       *)
(* algorithm name and, where it takes one, a private key.                  *)
(***************************************************************************)
\* the supported names, a registry name that is not an ECDSA algorithm,
\* a supported name in lower case, the name of no algorithm, the empty name
SignerNames == ECDSAAlgNames \cup {AlgPS256Name, "es256", "A128GCM", ""}
SignerCurves == {"P-256", "P-384", "P-521"}
SignerKeys == {[id |-> k, curve |-> c] : k \in ECDSAKeyIDs, c \in SignerCurves}
NoSignerRet == [err |-> "nil", val |-> NoSigner]

InitSigner ==
  /\ \E name \in SignerNames : \E key \in SignerKeys :
       arg = [name |-> name, key |-> key]
  /\ op = "none"
  /\ ret = NoSignerRet
  /\ hdr = NilHeaders
  /\ msg = NewSignMessage
  /\ hist = NoHist

\* signer, err := e.NewSigner(algName), some key being generated
DoNewSigner ==
  /\ op = "none"
  /\ \E keyID \in ECDSAKeyIDs : ret' = NewSigner(arg.name, keyID)
  /\ op' = "NewSigner"
  /\ UNCHANGED <<hdr, arg, msg, hist>>

\* signer, err := e.NewECDSASignerFromKey(algName, privateKey)
DoNewECDSASignerFromKey ==
  /\ op = "none"
  /\ ret' = NewECDSASignerFromKey(arg.name, arg.key)
  /\ op' = "NewECDSASignerFromKey"
  /\ UNCHANGED <<hdr, arg, msg, hist>>

\* signer, err := NewSignerFromKey(algName, privateKey)
DoNewSignerFromKey ==
  /\ op = "none"
  /\ ret' = NewSignerFromKey(arg.name, arg.key)
  /\ op' = "NewSignerFromKey"
  /\ UNCHANGED <<hdr, arg, msg, hist>>

NextSigner == DoNewSigner \/ DoNewECDSASignerFromKey \/ DoNewSignerFromKey

SpecSigner == InitSigner /\ [][NextSigner]_vars

(***************************************************************************)
(* SpecNil: Sign and Verify on a message whose Headers the client has set  *)
(* to nil, on Signatures without Headers, and with nil entries in the      *)
(* lists of signers and verifiers.  The lists are as long as Signatures.   *)
(***************************************************************************)
NoVerifier == [isnil |-> TRUE, algID |-> 0, key |-> [id |-> 0, curve |-> ""]]
NilSignatureChoices == {SignatureWith(Str("alg"), GoInt(-7)), Signature(NilHeaders, NilBytes)}
NilSignerChoices == {SignerES256, NoSigner}
NilVerifierChoices == {Verifier(SignerES256), NoVerifier}

InitNil ==
  /\ \E h \in MsgHeaderChoices, p \in PayloadChoices, n \in 1..MaxSigs :
       \E sigs \in [1..n -> NilSignatureChoices] :
         msg = SignMessage(h, p, [isnil |-> FALSE, s |-> sigs])
  /\ op = "NewSignMessage"
  /\ arg = [ext |-> NilBytes, who |-> <<>>, rand |-> <<>>]
  /\ ret = [err |-> "nil", calls |-> <<>>, first |-> FALSE]
  /\ hist = NoHist
  /\ hdr = NilHeaders

\* message.Headers = nil
DoNilHeaders ==
  /\ op \in {"NewSignMessage", "Sign"}
  /\ ~msg.Headers.isnil
  /\ msg' = [msg EXCEPT !.Headers = NilHeaders]
  /\ op' = "SetHeaders"
  /\ UNCHANGED <<hdr, arg, ret, hist>>

\* err := message.Sign(rand, external, signers), some signers nil
DoNilSign ==
  /\ op \in {"NewSignMessage", "SetHeaders"}
  /\ \E rand \in RandChoices, external \in ExternalChoices,
        signers \in [1..Len(msg.Signatures.s) -> NilSignerChoices] :
       \E o \in Sign(msg, rand, external, signers) :
         /\ msg' = o.msg
         /\ arg' = [ext |-> external, who |-> signers, rand |-> rand]
         /\ ret' = [err |-> o.err, calls |-> o.calls, first |-> TRUE]
  /\ op' = "Sign"
  /\ UNCHANGED <<hdr, hist>>

\* err := message.Verify(external, verifiers), some verifiers nil
DoNilVerify ==
  /\ op \in {"NewSignMessage", "SetHeaders", "Sign"}
  /\ \E external \in ExternalChoices,
        verifiers \in [1..Len(msg.Signatures.s) -> NilVerifierChoices] :
       \E o \in Verify(msg, external, verifiers) :
         /\ msg' = o.msg
         /\ arg' = [ext |-> external, who |-> verifiers, rand |-> <<>>]
         /\ ret' = [err |-> o.err, calls |-> o.calls, first |-> FALSE]
  /\ op' = "Verify"
  /\ UNCHANGED <<hdr, hist>>

NextNil == DoNilHeaders \/ DoNilSign \/ DoNilVerify

SpecNil == InitNil /\ [][NextNil]_vars

(***************************************************************************)
(* SpecRegistry: the lookups of the two registries, called with an         *)
(* argument of any type, and then on the value a lookup returned.          *)
(***************************************************************************)
RegistryNames ==
  {CommonHeaderNameAlg, CommonHeaderNameCrit, CommonHeaderNameContentType,
   CommonHeaderNameKeyID, CommonHeaderNameIV, CommonHeaderNamePartialIV,
   CommonHeaderNameCounterSignature,
   AlgPS256Name, AlgES512Name, AlgES384Name, AlgES256Name,
   "ALG", "Alg", "iv", "content-type", "es256", "PS384", "A128GCM", ""}
RegistryNumbers == (-38..-34) \cup {-8, -7, -6} \cup (-1..8)
RegistryArgs ==
  {[t |-> ty, s |-> x, n |-> 0] :
     ty \in {"string", "CommonHeaderName", "AlgName"}, x \in RegistryNames}
    \cup {[t |-> ty, s |-> "", n |-> x] :
            ty \in {"int", "int64", "uint64", "CommonHeaderID", "AlgID"},
            x \in RegistryNumbers}
    \cup {GoNil, GoBool(TRUE)}

\* an Algorithm of the table as a value
AlgorithmValue(alg) == [t |-> "Algorithm", s |-> alg.Name, n |-> alg.Value]

InitRegistry ==
  /\ arg \in RegistryArgs
  /\ op = "none"
  /\ ret = [err |-> "nil", val |-> GoNil, from |-> GoNil]
  /\ hdr = NilHeaders
  /\ msg = NewSignMessage
  /\ hist = NoHist

\* tag, err := GetCommonHeaderIDByName(name), name given or returned by
\* GetCommonHeaderNameByID
DoGetCommonHeaderIDByName ==
  /\ op = "none" \/ (op = "GetCommonHeaderNameByID" /\ ret.err = "nil" /\ ret.from = GoNil)
  /\ LET name == IF op = "none" THEN arg ELSE ret.val
         r == GetCommonHeaderIDByName(name)
     IN  /\ arg' = name
         /\ ret' = [err |-> r.err, val |-> CommonHeaderID(r.val),
                    from |-> IF op = "none" THEN GoNil ELSE arg]
  /\ op' = "GetCommonHeaderIDByName"
  /\ UNCHANGED <<hdr, msg, hist>>

\* name, err := GetCommonHeaderNameByID(tag), tag given or returned by
\* GetCommonHeaderIDByName
DoGetCommonHeaderNameByID ==
  /\ op = "none" \/ (op = "GetCommonHeaderIDByName" /\ ret.err = "nil" /\ ret.from = GoNil)
  /\ LET tag == IF op = "none" THEN arg ELSE ret.val
         r == GetCommonHeaderNameByID(tag)
     IN  /\ arg' = tag
         /\ ret' = [err |-> r.err, val |-> CommonHeaderName(r.val),
                    from |-> IF op = "none" THEN GoNil ELSE arg]
  /\ op' = "GetCommonHeaderNameByID"
  /\ UNCHANGED <<hdr, msg, hist>>

\* id, err := GetAlgIDByName(name), name given or returned by GetAlgNameByID
DoGetAlgIDByName ==
  /\ op = "none" \/ (op = "GetAlgNameByID" /\ ret.err = "nil" /\ ret.from = GoNil)
  /\ LET name == IF op = "none" THEN arg ELSE ret.val
         r == GetAlgIDByName(name)
     IN  /\ arg' = name
         /\ ret' = [err |-> r.err, val |-> AlgID(r.val),
                    from |-> IF op = "none" THEN GoNil ELSE arg]
  /\ op' = "GetAlgIDByName"
  /\ UNCHANGED <<hdr, msg, hist>>

\* name, err := GetAlgNameByID(id), id given or returned by GetAlgIDByName
DoGetAlgNameByID ==
  /\ op = "none" \/ (op = "GetAlgIDByName" /\ ret.err = "nil" /\ ret.from = GoNil)
  /\ LET id == IF op = "none" THEN arg ELSE ret.val
         r == GetAlgNameByID(id)
     IN  /\ arg' = id
         /\ ret' = [err |-> r.err, val |-> AlgName(r.val),
                    from |-> IF op = "none" THEN GoNil ELSE arg]
  /\ op' = "GetAlgNameByID"
  /\ UNCHANGED <<hdr, msg, hist>>

\* alg, err := GetAlgByName(name), for a name of type string
DoGetAlgByName ==
  /\ op = "none" /\ arg.t = "string"
  /\ LET r == GetAlgByName(arg.s)
     IN  ret' = [err |-> r.err, val |-> AlgorithmValue(r.val), from |-> GoNil]
  /\ op' = "GetAlgByName"
  /\ UNCHANGED <<hdr, arg, msg, hist>>

\* alg, err := GetAlgByValue(value), for a value of type int64
DoGetAlgByValue ==
  /\ op = "none" /\ arg.t = "int64"
  /\ LET r == GetAlgByValue(arg.n)
     IN  ret' = [err |-> r.err, val |-> AlgorithmValue(r.val), from |-> GoNil]
  /\ op' = "GetAlgByValue"
  /\ UNCHANGED <<hdr, arg, msg, hist>>

NextRegistry ==
  \/ DoGetCommonHeaderIDByName \/ DoGetCommonHeaderNameByID
  \/ DoGetAlgIDByName \/ DoGetAlgNameByID
  \/ DoGetAlgByName \/ DoGetAlgByValue

SpecRegistry == InitRegistry /\ [][NextRegistry]_vars

(***************************************************************************)
(* SpecSigStructure: the bytes to be signed for one Signature of a         *)
(* message, for protected maps written with labels, with tags, or with     *)
(* both for the same header.                                               *)
(***************************************************************************)
SigStructProtected ==
  {NilMap, MkMap({}),
   MkMap({[k |-> Str("kid"), v |-> Str("k1")]}),
   MkMap({[k |-> CommonHeaderID(4), v |-> Str("k1")]}),
   MkMap({[k |-> Str("kid"), v |-> Str("k1")], [k |-> CommonHeaderID(4), v |-> Str("k2")]})}
SigStructUnprotected == {MkMap({}), MkMap({[k |-> Str("kid"), v |-> Str("u1")]})}
SigStructSigProtected ==
  {MkMap({[k |-> Str("alg"), v |-> GoInt(-7)]}),
   MkMap({[k |-> CommonHeaderID(1), v |-> GoInt(-7)]}),
   MkMap({[k |-> Str("alg"), v |-> GoInt(-7)], [k |-> CommonHeaderID(1), v |-> GoInt(-35)]})}
SigStructSignatures ==
  {Signature(MkHeaders(p, u), NilBytes) : p \in SigStructSigProtected, u \in SigStructUnprotected}
SigStructPayloads == PayloadChoices \cup {NilBytes}

InitSigStructure ==
  /\ \E p \in SigStructProtected, u \in SigStructUnprotected, payload \in SigStructPayloads,
        n \in 1..MaxSigs :
       \E sigs \in [1..n -> SigStructSignatures] :
         msg = SignMessage(MkHeaders(p, u), payload, [isnil |-> FALSE, s |-> sigs])
  /\ op = "NewSignMessage"
  /\ arg = [ext |-> NilBytes, i |-> 0]
  /\ ret = [err |-> "nil", val |-> NoToBeSigned]
  /\ hist = NoHist
  /\ hdr = NilHeaders

\* ToBeSigned, err := message.SigStructure(external, &message.Signatures[i])
DoSigStructure ==
  /\ op = "NewSignMessage"
  /\ \E i \in 1..Len(msg.Signatures.s), external \in ExternalChoices :
       \E t \in SigStructure(msg, external, msg.Signatures.s[i]) :
         /\ arg' = [ext |-> external, i |-> i]
         /\ ret' = t
  /\ op' = "SigStructure"
  /\ UNCHANGED <<hdr, msg, hist>>

SpecSigStructure == InitSigStructure /\ [][DoSigStructure]_vars

(***************************************************************************)
(* SpecEncode: Headers.EncodeProtected on bounded Headers.                 *)
(***************************************************************************)
EncodeKeys ==
  {Str("alg"), CommonHeaderID(1), GoInt(1), Str("kid"), CommonHeaderID(4), Str("unknown")}

EncodeValues == {Str("ES256"), AlgID(-7), GoInt(-7), Str("k1")}

InitEncode ==
  /\ \/ hdr = NilHeaders
     \/ \E K \in KeySetsUpTo(EncodeKeys, MaxHdrEntries) :
          \E f \in [K -> EncodeValues] :
            \E p \in HeaderMapChoices(K, f) :
              hdr = MkHeaders(p, MkMap({}))
  /\ arg = GoNil
  /\ op = "none"
  /\ ret = [err |-> "nil", bstr |-> EmptyBstr]
  /\ msg = NewSignMessage
  /\ hist = NoHist

\* bstr := hdr.EncodeProtected()
DoEncodeProtected ==
  /\ op = "none"
  /\ \E b \in EncodeProtected(hdr) :
       ret' = [err |-> IF b.panic THEN "panic" ELSE "nil", bstr |-> b.bstr]
  /\ op' = "EncodeProtected"
  /\ UNCHANGED <<hdr, arg, msg, hist>>

SpecEncode == InitEncode /\ [][DoEncodeProtected]_vars

(***************************************************************************)
(* SpecNormalize: the in-place normalization of Headers.Algorithm.  hdr is *)
(* the Headers of the one Signature of msg as the client built them; the   *)
(* client encodes them before and after a call of Algorithm, or has the    *)
(* digest of the Signature computed as Sign does and then as Verify does.  *)
(***************************************************************************)
NormalizeSigProtected ==
  {MkMap({[k |-> Str("alg"), v |-> GoInt(-7)]}),
   MkMap({[k |-> CommonHeaderID(1), v |-> Str("ES256")]}),
   MkMap({[k |-> Str("alg"), v |-> Str("ES256")]}),
   MkMap({[k |-> GoInt(1), v |-> GoInt64(-35)], [k |-> Str("kid"), v |-> Str("k1")]}),
   MkMap({[k |-> Str("alg"), v |-> GoInt(-7)], [k |-> CommonHeaderID(1), v |-> GoInt(-35)]}),
   MkMap({[k |-> Str("kid"), v |-> Str("k1")]}),
   MkMap({})}

NoNormalizeRet ==
  [err |-> "nil", before |-> EmptyBstr, after |-> EmptyBstr, again |-> NilMap,
   sdigest |-> NoDigest, vdigest |-> NoDigest]

InitNormalize ==
  /\ \E p \in SigStructProtected, sp \in NormalizeSigProtected, u \in SigStructUnprotected :
       /\ hdr = MkHeaders(sp, u)
       /\ msg = SignMessage(MkHeaders(p, MkMap({})), CHOOSE b \in PayloadChoices : TRUE,
                            [isnil |-> FALSE, s |-> <<Signature(hdr, NilBytes)>>])
  /\ arg = NilBytes
  /\ op = "NewSignMessage"
  /\ ret = NoNormalizeRet
  /\ hist = NoHist

\* What the loops of Sign and of Verify compute for Signature i before they
\* call the signer or the verifier: the algorithm, then the digest; set of
\* [err, val |-> digest, msg |-> the message after the calls].
LoopDigest(m, external, i) ==
  UNION {
    LET m1 == WithSigHeaders(m, i, a.h)
    IN  IF a.err # "nil" THEN {[err |-> a.err, val |-> NoDigest, msg |-> m1]}
        ELSE IF a.id > -1 THEN {[err |-> "ErrInvalidAlg", val |-> NoDigest, msg |-> m1]}
        ELSE {[err |-> d.err, val |-> d.val, msg |-> WithSigHeaders(m1, i, d.h)] :
                d \in SignatureDigest(m1, external, m1.Signatures.s[i])} :
    a \in Algorithm(m.Signatures.s[i].Headers)}

\* before := h.EncodeProtected(); _, err := h.Algorithm();
\* after := h.EncodeProtected(); again := CompressHeaders(h.Protected)
DoNormalize ==
  /\ op = "NewSignMessage"
  /\ \E b \in EncodeProtected(hdr), a \in Algorithm(hdr) :
       \E b2 \in EncodeProtected(a.h), c \in CompressHeaders(a.h.Protected) :
         /\ ret' = [NoNormalizeRet EXCEPT !.err = a.err, !.before = b.bstr,
                                          !.after = b2.bstr, !.again = c]
         /\ msg' = WithSigHeaders(msg, 1, a.h)
  /\ op' = "Algorithm"
  /\ UNCHANGED <<hdr, arg, hist>>

\* the digest Sign computes for the Signature
DoSignDigest ==
  /\ op = "NewSignMessage"
  /\ \E external \in ExternalChoices :
       \E d \in LoopDigest(msg, external, 1) :
         /\ arg' = external
         /\ ret' = [NoNormalizeRet EXCEPT !.err = d.err, !.sdigest = d.val]
         /\ msg' = d.msg
  /\ op' = "Sign"
  /\ UNCHANGED <<hdr, hist>>

\* the digest a later Verify computes for it, with the same external data
DoVerifyDigest ==
  /\ op = "Sign"
  /\ ret.err = "nil"
  /\ \E d \in LoopDigest(msg, arg, 1) :
       /\ ret' = [ret EXCEPT !.err = d.err, !.vdigest = d.val]
       /\ msg' = d.msg
  /\ op' = "Verify"
  /\ UNCHANGED <<hdr, arg, hist>>

NextNormalize == DoNormalize \/ DoSignDigest \/ DoVerifyDigest

SpecNormalize == InitNormalize /\ [][NextNormalize]_vars

(***************************************************************************)
(* SpecSignPost: Sign on messages built with headers in every spelling,    *)
(* those that hold a header twice included.                                *)
(***************************************************************************)
SignPostMsgProtected ==
  {MkMap({[k |-> Str("kid"), v |-> Str("k1")]}),
   MkMap({[k |-> Str("kid"), v |-> Str("k1")], [k |-> CommonHeaderID(4), v |-> Str("k2")]})}

SignPostSignatures ==
  {Signature(MkHeaders(MkMap({[k |-> Str("alg"), v |-> GoInt(-7)]}), NilMap), NilBytes),
   Signature(MkHeaders(MkMap({[k |-> GoInt(1), v |-> GoInt64(-35)]}),
                       MkMap({[k |-> Str("kid"), v |-> Str("u1")]})), NilBytes),
   Signature(MkHeaders(MkMap({[k |-> CommonHeaderID(1), v |-> Str("ES256")]}), MkMap({})),
             NilBytes),
   Signature(MkHeaders(MkMap({[k |-> Str("alg"), v |-> GoInt(-7)],
                              [k |-> CommonHeaderID(1), v |-> GoInt(-35)]}), MkMap({})),
             NilBytes)}

InitSignPost ==
  /\ \E p \in SignPostMsgProtected, payload \in PayloadChoices, n \in 1..MaxSigs :
       \E sigs \in [1..n -> SignPostSignatures] :
         msg = SignMessage(MkHeaders(p, MkMap({})), payload, [isnil |-> FALSE, s |-> sigs])
  /\ op = "NewSignMessage"
  /\ arg = [ext |-> NilBytes, who |-> <<>>, rand |-> <<>>]
  /\ ret = [err |-> "nil", calls |-> <<>>, first |-> FALSE]
  /\ hist = NoHist
  /\ hdr = NilHeaders

SpecSignPost == InitSignPost /\ [][DoSign]_vars

(***************************************************************************)
(* The tables the claims are stated against.                               *)
(***************************************************************************)
LabelTag ==
  [l \in {"alg", "crit", "content type", "kid", "IV", "Partial IV", "counter signature"} |->
     CASE l = "alg" -> 1 [] l = "crit" -> 2 [] l = "content type" -> 3
       [] l = "kid" -> 4 [] l = "IV" -> 5 [] l = "Partial IV" -> 6
       [] OTHER -> 7]

SigningAlgID ==
  [n \in {"PS256", "ES512", "ES384", "ES256"} |->
     CASE n = "PS256" -> -37 [] n = "ES512" -> -36 [] n = "ES384" -> -35
       [] OTHER -> -7]

IsLabelKey(k) == k.t = "string" /\ k.s \in DOMAIN LabelTag
IsIntTagKey(k) == k.t = "int" /\ k.n \in 1..7
IsAlgNameValue(v) == v.t = "string" /\ v.s \in DOMAIN SigningAlgID

(***************************************************************************)
(* Claims on the compression engine (SpecCompress).                        *)
(***************************************************************************)
\* C1: for a header map whose keys are all recognized labels and whose "alg"
\* value, if any, is a recognized algorithm name,
\* DecompressHeaders(CompressHeaders(m)) has the entries of m.
C1_RoundTripLaw ==
  (/\ op = "RoundTrip"
   /\ \A x \in hdr.Protected.e :
        IsLabelKey(x.k) /\ (x.k.s = "alg" => IsAlgNameValue(x.v)))
  => ret.out.e = hdr.Protected.e

\* C2: every entry whose key is not a recognized label (CompressHeaders), or
\* not an int tag 1..7 (DecompressHeaders), is in the output with the same
\* key and the same value.
C2_PassThrough ==
  /\ op = "CompressHeaders" =>
       \A x \in hdr.Protected.e : ~IsLabelKey(x.k) => x \in ret.out.e
  /\ op = "DecompressHeaders" =>
       \A x \in hdr.Protected.e : ~IsIntTagKey(x.k) => x \in ret.out.e

\* C3: CompressHeaders turns a label entry into the entry of its tag; the
\* value becomes the algorithm's numeric ID when the label is "alg" and the
\* value a recognized algorithm name, and is untouched otherwise; a map of
\* the one entry {"alg": v} gives a map of that one entry.  (An entry is left
\* out here when the map also holds its tag already compressed.)
C3_CompressAlgEntry ==
  op = "CompressHeaders" =>
    \A x \in hdr.Protected.e :
      (IsLabelKey(x.k) /\ CommonHeaderID(LabelTag[x.k.s]) \notin Keys(hdr.Protected)) =>
        LET tag == CommonHeaderID(LabelTag[x.k.s])
            got == Lookup(ret.out, tag)
        IN  /\ tag \in Keys(ret.out)
            /\ x.k \notin Keys(ret.out)
            /\ IF x.k.s = "alg" /\ IsAlgNameValue(x.v)
               THEN got.t \in {"AlgID", "int", "int64"} /\ got.n = SigningAlgID[x.v.s]
               ELSE got = x.v
            /\ Cardinality(hdr.Protected.e) = 1 => Cardinality(ret.out.e) = 1

C3_Witness ==
  /\ op = "CompressHeaders"
  /\ hdr.Protected.e = {[k |-> Str("alg"), v |-> Str("PS256")]}
  /\ ret.out.e = {[k |-> CommonHeaderID(1), v |-> AlgID(-37)]}

(***************************************************************************)
(* Claims on Headers.Get and Headers.Algorithm (SpecHeaders).              *)
(***************************************************************************)
InProtected(key) == \E x \in hdr.Protected.e : x.k = key
InUnprotected(key) == \E x \in hdr.Unprotected.e : x.k = key

\* C4: Get fails with key-not-found when the key is in neither map, with the
\* ambiguous-key error when it is in both, and otherwise returns the value
\* stored in the one map that holds the key.
C4_Get ==
  (op = "Get" /\ ~hdr.isnil) =>
    /\ (~InProtected(arg) /\ ~InUnprotected(arg)) => ret.err = "ErrKeyNotFound"
    /\ (InProtected(arg) /\ InUnprotected(arg)) => ret.err = "ErrAmbiguousKey"
    /\ (InProtected(arg) /\ ~InUnprotected(arg)) =>
         ret.err = "nil" /\ [k |-> arg, v |-> ret.val] \in hdr.Protected.e
    /\ (~InProtected(arg) /\ InUnprotected(arg)) =>
         ret.err = "nil" /\ [k |-> arg, v |-> ret.val] \in hdr.Unprotected.e

C4_Witness ==
  /\ op = "Get"
  /\ arg = GoUint64(1)
  /\ hdr.Protected.e = {[k |-> GoUint64(1), v |-> GoInt64(-35)]}
  /\ hdr.Unprotected.e = {[k |-> GoUint64(1), v |-> GoInt(-7)]}
  /\ ret.err = "ErrAmbiguousKey"

\* The algorithm slot: the entries under a key representation of the slot.
AlgSlotKeys == {Str("alg"), CommonHeaderID(1), GoInt(1), GoUint64(1)}
AlgSlot(m) == {x \in m.e : x.k \in AlgSlotKeys}

\* The numeric value of a Go integer (a uint64 is stored by its bit pattern;
\* one with the top bit set is a number above 2^63, no algorithm ID).
IsAlgIDValue(v) == v.t \in {"int", "int64"} /\ v.n \in {-37, -36, -35, -7}
DeclaredAlgID(v) == IF v.t = "string" THEN SigningAlgID[v.s] ELSE v.n

\* C5: when the algorithm slot is present in exactly one of the two maps,
\* under any key representation, with a recognized signing-algorithm name or
\* its numeric ID, Algorithm returns that algorithm's ID without error; when
\* the slot is absent from both maps or the receiver is nil, it fails with
\* AlgNotFound.
C5_Algorithm ==
  op = "Algorithm" =>
    /\ hdr.isnil => ret.err = "ErrAlgNotFound"
    /\ (~hdr.isnil /\ AlgSlot(hdr.Protected) = {} /\ AlgSlot(hdr.Unprotected) = {})
         => ret.err = "ErrAlgNotFound"
    /\ \A x \in AlgSlot(hdr.Protected) \cup AlgSlot(hdr.Unprotected) :
         (/\ ~hdr.isnil
          /\ Cardinality(AlgSlot(hdr.Protected)) + Cardinality(AlgSlot(hdr.Unprotected)) = 1
          /\ (IsAlgNameValue(x.v) \/ IsAlgIDValue(x.v)))
         => ret.err = "nil" /\ ret.id = DeclaredAlgID(x.v)

(***************************************************************************)
(* Sign and Verify.                                                        *)
(***************************************************************************)
EllipticCurveAlgIDs == {-7, -35, -36}

\* the algorithm a Signature declares in its protected headers, if it
\* declares exactly one, by a signing-algorithm name or by a number
DeclaresAlg(sig) ==
  /\ ~sig.Headers.isnil
  /\ ~sig.Headers.Protected.isnil
  /\ Cardinality(AlgSlot(sig.Headers.Protected)) = 1
  /\ sig.Headers.Unprotected.isnil \/ AlgSlot(sig.Headers.Unprotected) = {}
  /\ \A x \in AlgSlot(sig.Headers.Protected) :
       IsAlgNameValue(x.v) \/ x.v.t \in {"int", "int64"}

DeclaredAlgOf(sig) ==
  DeclaredAlgID((CHOOSE x \in AlgSlot(sig.Headers.Protected) : TRUE).v)

Unsigned(sig) == sig.SignatureBytes.isnil

\* n >= 1 unsigned Signatures each declaring an elliptic-curve algorithm,
\* and signers of the matching algorithms
C6_Matching(m, signers) ==
  /\ ~m.Signatures.isnil
  /\ Len(m.Signatures.s) >= 1
  /\ Len(signers) = Len(m.Signatures.s)
  /\ \A i \in 1..Len(m.Signatures.s) :
       /\ Unsigned(m.Signatures.s[i])
       /\ DeclaresAlg(m.Signatures.s[i])
       /\ DeclaredAlgOf(m.Signatures.s[i]) \in EllipticCurveAlgIDs
       /\ ~signers[i].isnil
       /\ signers[i].algID = DeclaredAlgOf(m.Signatures.s[i])

\* C6: for a SignMessage with any payload and external data and n >= 1
\* unsigned Signatures each declaring an elliptic-curve algorithm in its
\* protected headers, Sign with signers of the matching algorithms succeeds,
\* and a following Verify with the same external data and each signer's
\* paired verifier, in the same order, returns no error.
C6_EndToEnd ==
  [][/\ (op # "Sign" /\ op' = "Sign" /\ C6_Matching(msg, arg'.who)) => ret'.err = "nil"
     /\ (/\ op = "Sign" /\ ret.first /\ ret.err = "nil"
         /\ op' = "Verify"
         /\ arg'.ext = arg.ext
         /\ arg'.who = PairedVerifiers(arg.who)) => ret'.err = "nil"]_vars

\* what Verify was given differs from what the first successful Sign signed
SignatureChanged == SigBytesOf(msg) # hist.sigs
PayloadChanged == msg.Payload # hist.payload
ExternalChanged == arg.ext # hist.ext
VerifiedWithPaired ==
  op = "Verify" /\ hist.ok /\ arg.who = PairedVerifiers(hist.signers)

C8_SignPreconditions ==
  [][op' = "Sign" =>
       /\ msg.Signatures.isnil =>
            ret'.err = "ErrNilSignatures" /\ ret'.calls = <<>> /\ msg' = msg
       /\ (~msg.Signatures.isnil /\ Len(msg.Signatures.s) = 0) =>
            ret'.err = "ErrNoSignatures" /\ ret'.calls = <<>> /\ msg' = msg
       /\ (Len(msg.Signatures.s) >= 1 /\ Len(msg.Signatures.s) # Len(arg'.who)) =>
            ret'.err = "ErrSignerCount" /\ ret'.calls = <<>> /\ msg' = msg]_vars

\* 2 Signatures and 1 signer: the count-mismatch error, nothing invoked or written
C8_Witness ==
  /\ op = "Sign"
  /\ Len(msg.Signatures.s) = 2
  /\ Len(arg.who) = 1
  /\ ret.err = "ErrSignerCount"
  /\ ret.calls = <<>>
  /\ \A i \in 1..2 : Unsigned(msg.Signatures.s[i])

\* C9: when the first Signature of the message declares an algorithm ID
\* >= 0 (and nothing earlier stops the call), Sign and Verify fail with
\* InvalidAlg, invoke no signer or verifier for it and do not write its
\* SignatureBytes.
C9_Layering ==
  [][(/\ op' \in {"Sign", "Verify"}
      /\ Len(msg.Signatures.s) >= 1
      /\ DeclaresAlg(msg.Signatures.s[1])
      /\ DeclaredAlgOf(msg.Signatures.s[1]) >= 0
      /\ op' = "Sign" => (Unsigned(msg.Signatures.s[1]) /\ Len(arg'.who) = Len(msg.Signatures.s))
      /\ op' = "Verify" => ~Unsigned(msg.Signatures.s[1]))
     => /\ ret'.err = "ErrInvalidAlg"
        /\ ret'.calls = <<>>
        /\ SigBytesOf(msg') = SigBytesOf(msg)]_vars

\* the byte width the claim gives each algorithm
C10_Width(algID) ==
  CASE algID = -7 -> 32 [] algID = -35 -> 48 [] algID = -36 -> 66 [] OTHER -> 0

\* C10: for every digest and every (R, S) the curve operation produces,
\* ECDSASigner.Sign returns exactly 2*width bytes (32 for ES256, 48 for
\* ES384, 66 for ES512): each integer big-endian, left-padded with zero
\* bytes to width and never shortened, so that the two halves decode to R
\* and S.
C10_FixedWidth ==
  op = "ECDSASign" =>
    LET w == C10_Width(arg.signer.algID)
        b == ret.val.b
    IN  /\ ret.err = "nil"
        /\ ~ret.val.isnil
        /\ Len(b) = 2 * w
        /\ Len(ret.R) <= w /\ Len(ret.S) <= w
        /\ SubSeq(b, 1, w) = Repeat(Byte(0), w - Len(ret.R)) \o ret.R
        /\ SubSeq(b, w + 1, 2 * w) = Repeat(Byte(0), w - Len(ret.S)) \o ret.S
        /\ SetBytes(SubSeq(b, 1, w)) = ret.R
        /\ SetBytes(SubSeq(b, w + 1, 2 * w)) = ret.S

\* ES512 with a one-byte R: 132 bytes, 65 of the first 66 are padding
C10_Witness ==
  /\ op = "ECDSASign"
  /\ arg.signer.algID = -36
  /\ Len(ret.R) = 1
  /\ Len(ret.val.b) = 132
  /\ ret.val.b[65] = Byte(0)

(***************************************************************************)
(* Sign and Verify: what a call does to the Signatures.                    *)
(***************************************************************************)
SomeSigned(m) == \E i \in 1..Len(m.Signatures.s) : ~Unsigned(m.Signatures.s[i])

\* in a Sign or Verify step, bytes appear only at an index whose signer Sign
\* invoked, and bytes present are kept
BytesOnlySetBySign ==
  \A i \in 1..Len(msg.Signatures.s) :
    /\ (Unsigned(msg.Signatures.s[i]) /\ ~Unsigned(msg'.Signatures.s[i]))
         => (op' = "Sign" /\ \E k \in 1..Len(ret'.calls) : ret'.calls[k] = i)
    /\ ~Unsigned(msg.Signatures.s[i])
         => msg'.Signatures.s[i].SignatureBytes = msg.Signatures.s[i].SignatureBytes

\* C11 as stated: SignatureBytes is nil until a Sign call succeeds for that
\* entry; once a Signature holds bytes, every later Sign call on the message
\* fails with an already-signed error and leaves those bytes unchanged, so
\* under Sign and Verify calls a Signature never goes back to Unsigned and
\* its bytes are never overwritten.
C11_SignedIsFinalAsStated ==
  [][op' \in {"Sign", "Verify"} =>
       /\ Len(msg'.Signatures.s) = Len(msg.Signatures.s)
       /\ BytesOnlySetBySign
       /\ (op' = "Sign" /\ SomeSigned(msg)) => ret'.err = "ErrAlreadySigned"]_vars

\* C11: SignatureBytes is nil until a Sign call succeeds for that entry;
\* once a Signature holds bytes, every later Sign call on the message fails
\* and leaves every SignatureBytes as it was: with the count-mismatch error
\* when the number of signers differs from the number of Signatures, with
\* the already-signed error otherwise; so under Sign and Verify calls a
\* Signature never goes back to Unsigned and its bytes are never overwritten.
C11_SignedIsFinal ==
  [][op' \in {"Sign", "Verify"} =>
       /\ Len(msg'.Signatures.s) = Len(msg.Signatures.s)
       /\ BytesOnlySetBySign
       /\ (op' = "Sign" /\ SomeSigned(msg)) =>
            /\ ret'.err = IF Len(arg'.who) # Len(msg.Signatures.s)
                          THEN "ErrSignerCount" ELSE "ErrAlreadySigned"
            /\ ret'.calls = <<>>
            /\ SigBytesOf(msg') = SigBytesOf(msg)]_vars

\* a second Sign, with other randomness, on a message signed by the first
C11_Witness ==
  /\ op = "Sign" /\ ~ret.first
  /\ hist.ok
  /\ Len(hist.sigs) = 2
  /\ arg.rand # <<NonceA, NonceB>>
  /\ ret.err = "ErrAlreadySigned"
  /\ SigBytesOf(msg) = hist.sigs

\* C12: Verify on a message whose signature list is nil or empty returns
\* success without invoking any verifier, whatever the verifier list and the
\* external data are.
C12_VerifyNothing ==
  [][(op' = "Verify" /\ (msg.Signatures.isnil \/ Len(msg.Signatures.s) = 0))
       => (ret'.err = "nil" /\ ret'.calls = <<>>)]_vars

\* an empty, non-nil list, one verifier and external data: success, no call
C12_Witness ==
  /\ op = "Verify"
  /\ ~msg.Signatures.isnil /\ Len(msg.Signatures.s) = 0
  /\ Len(arg.who) = 1
  /\ arg.ext # NilBytes
  /\ ret.err = "nil"
  /\ ret.calls = <<>>

\* C13: when the signature list is non-empty and its length differs from
\* the number of verifiers, Verify returns an error: it neither reads past
\* the end of a shorter verifier list (a run-time panic) nor succeeds while
\* ignoring surplus verifiers.
C13_VerifyCount ==
  [][(op' = "Verify" /\ Len(msg.Signatures.s) >= 1
        /\ Len(arg'.who) # Len(msg.Signatures.s))
       => ret'.err \notin {"nil", "panic"}]_vars

\* C14: after Verify returns, with success or with an error, the message -
\* payload, Signatures, every SignatureBytes and every header map of the
\* message and of its signatures - is equal to what it was before the call.
C14_VerifyFrame ==
  [][op' = "Verify" => msg' = msg]_vars

ShapeErrors ==
  {"ErrNilSignatures", "ErrNoSignatures", "ErrSignerCount", "ErrNilSigHeader",
   "ErrNilSigProtectedHeaders"}

\* C15: when Sign returns a count or shape error (nil list, empty list,
\* count mismatch, nil Headers or nil protected map of a Signature at any
\* index), no signer has been invoked for any index and no SignatureBytes
\* has been written.
C15_ShapeBeforeCrypto ==
  [][(op' = "Sign" /\ ret'.err \in ShapeErrors)
       => (ret'.calls = <<>> /\ SigBytesOf(msg') = SigBytesOf(msg))]_vars

Invoked(calls, i) == \E k \in 1..Len(calls) : calls[k] = i

\* C16: at each index i, if the algorithm ID of signers[i] differs from the
\* algorithm ID declared in the headers of Signatures[i], Sign fails,
\* signers[i].Sign is not invoked and Signatures[i].SignatureBytes stays as
\* it was (unset if it was unset); the mismatch error is returned before
\* the signing operation of its index.
C16_SignerAlgMatch ==
  [][(op' = "Sign" /\ ~msg.Signatures.isnil /\ Len(arg'.who) = Len(msg.Signatures.s)) =>
       /\ \A i \in 1..Len(msg.Signatures.s) :
            (/\ DeclaresAlg(msg.Signatures.s[i])
             /\ ~arg'.who[i].isnil
             /\ arg'.who[i].algID # DeclaredAlgOf(msg.Signatures.s[i]))
            => /\ ret'.err # "nil"
               /\ ~Invoked(ret'.calls, i)
               /\ msg'.Signatures.s[i].SignatureBytes = msg.Signatures.s[i].SignatureBytes
       /\ ret'.err = "ErrSignerAlg" =>
            LET i == Len(ret'.calls) + 1
            IN  /\ i <= Len(msg.Signatures.s)
                /\ arg'.who[i].algID # DeclaredAlgOf(msg.Signatures.s[i])
                /\ Unsigned(msg'.Signatures.s[i])]_vars

\* the second signer is of another algorithm than the second Signature
C16_Witness ==
  /\ op = "Sign" /\ ret.first
  /\ Len(msg.Signatures.s) = 2
  /\ ret.err = "ErrSignerAlg"
  /\ ret.calls = <<1>>
  /\ ~Unsigned(msg.Signatures.s[1])
  /\ Unsigned(msg.Signatures.s[2])
  /\ arg.who[2].algID # DeclaredAlgOf(msg.Signatures.s[2])

\* what Verify returns for the Signature of index i taken alone, with the
\* verifier of index i if there is one
IndexErrs(m, i, external, verifiers) ==
  {o.err : o \in Verify([m EXCEPT !.Signatures.s = <<m.Signatures.s[i]>>], external,
                        IF i <= Len(verifiers) THEN <<verifiers[i]>> ELSE <<>>)}

FirstIndexes(k) == [j \in 1..k |-> j]

\* the lowest index from i on whose Signature, taken alone, does not verify,
\* with the errors it can fail with; index 0 if there is none
RECURSIVE FirstFailing(_, _, _, _)
FirstFailing(m, i, external, verifiers) ==
  IF i > Len(m.Signatures.s) THEN [i |-> 0, errs |-> {}]
  ELSE LET errs == IndexErrs(m, i, external, verifiers)
       IN  IF "nil" \notin errs THEN [i |-> i, errs |-> errs]
           ELSE FirstFailing(m, i + 1, external, verifiers)

\* C17: Verify returns the error of the lowest index i at which a check or
\* verifiers[i].Verify fails, and invokes no verifier at an index greater
\* than i; it returns success only if every index passed.
C17_VerifyShortCircuit ==
  [][(op' = "Verify" /\ Len(msg.Signatures.s) >= 1) =>
       \E f \in {FirstFailing(msg, 1, arg'.ext, arg'.who)} :
         IF f.i = 0
         THEN ret'.err = "nil" /\ ret'.calls = FirstIndexes(Len(msg.Signatures.s))
         ELSE /\ ret'.err \in f.errs
              /\ ret'.calls \in {FirstIndexes(f.i - 1), FirstIndexes(f.i)}]_vars

\* the first of two signatures is refused; the verifier of the second,
\* which holds bytes, is not invoked
C17_Witness ==
  /\ op = "Verify"
  /\ Len(msg.Signatures.s) = 2
  /\ Len(arg.who) = 2
  /\ ~Unsigned(msg.Signatures.s[2])
  /\ ret.err = "ErrECDSAVerification"
  /\ ret.calls = <<1>>

\* C18 as stated: when Sign fails at index i, every index j < i keeps the
\* SignatureBytes written during this call and every index j >= i has its
\* SignatureBytes unchanged; any later Sign on the message then fails as
\* already signed.
C18_PartialMutationAsStated ==
  [][/\ (op' = "Sign" /\ ret'.err # "nil") =>
          /\ ret'.calls = FirstIndexes(Len(ret'.calls))
          /\ \A j \in 1..Len(msg.Signatures.s) :
               IF j <= Len(ret'.calls)
               THEN Unsigned(msg.Signatures.s[j]) /\ ~Unsigned(msg'.Signatures.s[j])
               ELSE msg'.Signatures.s[j].SignatureBytes = msg.Signatures.s[j].SignatureBytes
     /\ (op = "Sign" /\ ret.err # "nil" /\ ret.calls # <<>> /\ op' = "Sign") =>
          (ret'.err = "ErrAlreadySigned" /\ ret'.calls = <<>> /\ msg' = msg)]_vars

\* C18: when Sign fails at index i, every index j < i keeps the
\* SignatureBytes written during this call and every index j >= i has its
\* SignatureBytes unchanged; a later Sign on the message then fails and
\* writes nothing: as already signed when it is given as many signers as
\* there are Signatures, with the count-mismatch error otherwise.
C18_PartialMutation ==
  [][/\ (op' = "Sign" /\ ret'.err # "nil") =>
          /\ ret'.calls = FirstIndexes(Len(ret'.calls))
          /\ \A j \in 1..Len(msg.Signatures.s) :
               IF j <= Len(ret'.calls)
               THEN Unsigned(msg.Signatures.s[j]) /\ ~Unsigned(msg'.Signatures.s[j])
               ELSE msg'.Signatures.s[j].SignatureBytes = msg.Signatures.s[j].SignatureBytes
     /\ (op = "Sign" /\ ret.err # "nil" /\ ret.calls # <<>> /\ op' = "Sign") =>
          /\ ret'.err = IF Len(arg'.who) = Len(msg.Signatures.s)
                        THEN "ErrAlreadySigned" ELSE "ErrSignerCount"
          /\ ret'.calls = <<>>
          /\ msg' = msg]_vars

\* a first Sign wrote index 1 and failed at index 2; the second Sign is refused
C18_Witness ==
  /\ op = "Sign" /\ ~ret.first
  /\ ~hist.ok
  /\ Len(msg.Signatures.s) = 2
  /\ ~Unsigned(msg.Signatures.s[1])
  /\ Unsigned(msg.Signatures.s[2])
  /\ ret.err = "ErrAlreadySigned"

(***************************************************************************)
(* ECDSAVerifier.Verify on byte strings of any length.                     *)
(***************************************************************************)
\* C19: for every signature byte string whose length differs from 2*width
\* of the verifier's algorithm (64, 96, 132 bytes for ES256, ES384, ES512)
\* ECDSAVerifier.Verify returns the error of the length check, which comes
\* before curve verification; for a byte string of the right length it
\* returns nil exactly when curve verification of the two decoded halves
\* accepts, and ECDSAVerificationFailed otherwise.  Curve verification
\* accepts only Sign's bytes or their (R, N - S) form, under the signer's
\* key and digest.
C19_VerifyLength ==
  op = "ECDSAVerify" =>
    LET w == C10_Width(arg.verifier.algID)
        b == arg.tested.b
    IN  IF Len(b) # 2 * w
        THEN ret.err = "ErrInvalidSignatureLength"
        ELSE /\ ret.err = IF ecdsaVerify(arg.verifier.key, arg.vdigest,
                                         SetBytes(SubSeq(b, 1, w)),
                                         SetBytes(SubSeq(b, w + 1, 2 * w)))
                          THEN "nil" ELSE "ErrECDSAVerification"
             /\ ret.err = "nil" =>
                  /\ arg.verifier.key = arg.signer.key
                  /\ arg.vdigest = arg.digest
                  /\ arg.tested \in {ret.val, BytesOf(Malleated(ret.val.b))}
             /\ (/\ arg.verifier = Verifier(arg.signer)
                 /\ arg.vdigest = arg.digest
                 /\ arg.tested = ret.val) => ret.err = "nil"

\* the signer's own verifier, key and digest, and the signature without
\* its last byte: 95 bytes for ES384
C19_Witness ==
  /\ op = "ECDSAVerify"
  /\ arg.verifier = Verifier(arg.signer)
  /\ arg.verifier.algID = -35
  /\ arg.vdigest = arg.digest
  /\ Len(arg.tested.b) = 95
  /\ ret.err = "ErrInvalidSignatureLength"

(***************************************************************************)
(* Signer construction.                                                    *)
(***************************************************************************)
\* the algorithm ID and the curve the claim binds to each supported name
C20_AlgID(name) ==
  CASE name = "ES256" -> -7 [] name = "ES384" -> -35 [] name = "ES512" -> -36 [] OTHER -> 0

C20_Curve(name) ==
  CASE name = "ES256" -> "P-256" [] name = "ES384" -> "P-384" [] name = "ES512" -> "P-521"
    [] OTHER -> ""

C20_Supported == {"ES256", "ES384", "ES512"}

\* what the claim requires of one constructor call: fromKey tells whether
\* the constructor was given a key
C20_Constructed(fromKey) ==
  /\ arg.name \notin C20_Supported => (ret.err # "nil" /\ ret.val.isnil)
  /\ (fromKey /\ arg.name \in C20_Supported /\ arg.key.curve # C20_Curve(arg.name)) =>
       (ret.err # "nil" /\ ret.val.isnil)
  /\ ret.err = "nil" =>
       /\ ~ret.val.isnil
       /\ ret.val.algID = C20_AlgID(arg.name)
       /\ ret.val.key.curve = C20_Curve(arg.name)
       /\ fromKey => ret.val.key = arg.key

\* The constructors of the elliptic-curve implementation, ECDSAImpl.NewSigner
\* and ECDSAImpl.NewECDSASignerFromKey, construct as required.
ECDSAImplConstructs ==
  /\ op = "NewSigner" => C20_Constructed(FALSE)
  /\ op = "NewECDSASignerFromKey" => C20_Constructed(TRUE)

\* C20: NewSigner and NewSignerFromKey return an error, and no signer, for
\* every algorithm name other than ES256, ES384, ES512 (PS256 included);
\* NewSignerFromKey also returns an error when the key's curve is not the
\* curve bound to the algorithm (P-256, P-384, P-521); on success the
\* signer's algorithm ID is the ID of the requested name and its key is on
\* the bound curve.
C20_SignerConstruction ==
  /\ op = "NewSigner" => C20_Constructed(FALSE)
  /\ op \in {"NewECDSASignerFromKey", "NewSignerFromKey"} => C20_Constructed(TRUE)

(***************************************************************************)
(* Nil inputs.                                                             *)
(***************************************************************************)
\* the returns of a call that the caller does not get: a run-time panic
\* and the end of the process by log.Fatalf
Aborts == {"panic", "fatal"}

\* Sign and Verify return an ordinary error for a Signature without Headers
\* or without protected map, and Verify for a nil verifier entry.
NilSignatureIsAnError ==
  [][(op' \in {"Sign", "Verify"} /\ ~msg.Headers.isnil
      /\ (op' = "Sign" => \A i \in 1..Len(arg'.who) : ~arg'.who[i].isnil))
       => ret'.err \notin Aborts]_vars

\* C21: for every message and signer/verifier list, including a message
\* whose own Headers is nil, a Signature whose Headers is nil, and a nil
\* signer or verifier entry, Sign and Verify return an ordinary error to
\* the caller and never panic or terminate the process.
C21_NoAbort == op \in {"Sign", "Verify"} => ret.err \notin Aborts

(***************************************************************************)
(* The registries.                                                         *)
(***************************************************************************)
\* the 7-entry table: the name of tag i is C22_Name[i]
C22_Name ==
  <<"alg", "crit", "content type", "kid", "IV", "Partial IV", "counter signature">>

C22_IsName(x) == \E i \in 1..Len(C22_Name) : C22_Name[i] = x
C22_ID(x) == CHOOSE i \in 1..Len(C22_Name) : C22_Name[i] = x

\* C22: GetCommonHeaderIDByName and GetCommonHeaderNameByID are total and
\* mutually inverse over the fixed 7-entry table (alg=1, crit=2, content
\* type=3, kid=4, IV=5, Partial IV=6, counter signature=7), for the typed
\* and the plain string/int argument forms; every other name, every other
\* integer and every argument of another type gives the not-found error of
\* the lookup, and matching is case-sensitive.
C22_HeaderRegistry ==
  /\ op = "GetCommonHeaderIDByName" =>
       /\ IF arg.t \in {"string", "CommonHeaderName"} /\ C22_IsName(arg.s)
          THEN ret.err = "nil" /\ ret.val = CommonHeaderID(C22_ID(arg.s))
          ELSE ret.err = "ErrMissingCOSETagForLabel"
       /\ ret.from # GoNil => (ret.err = "nil" /\ ret.val.n = ret.from.n)
  /\ op = "GetCommonHeaderNameByID" =>
       /\ IF arg.t \in {"int", "CommonHeaderID"} /\ arg.n \in 1..Len(C22_Name)
          THEN ret.err = "nil" /\ ret.val = CommonHeaderName(C22_Name[arg.n])
          ELSE ret.err = "ErrMissingCOSETagForTag"
       /\ ret.from # GoNil => (ret.err = "nil" /\ ret.val.s = ret.from.s)

\* "counter signature" given as a plain string is found to be tag 7, and
\* tag 7 is found to be "counter signature"
C22_Witness ==
  /\ op = "GetCommonHeaderNameByID"
  /\ ret.from = Str("counter signature")
  /\ arg = CommonHeaderID(7)
  /\ ret.val = CommonHeaderName("counter signature")

\* the signing algorithm with the ID x, if there is one
C23_IsID(x) == \E name \in DOMAIN SigningAlgID : SigningAlgID[name] = x
C23_Name(x) == CHOOSE name \in DOMAIN SigningAlgID : SigningAlgID[name] = x

NoTwoSpellings(m) == Cardinality(CompressHeaders(m)) = 1

\* the messages that differ from m only in unprotected headers (of the
\* message or of a Signature) or in the Signatures other than the i-th
SigStructVariants(m, i) ==
  {[m EXCEPT !.Headers.Unprotected = u, !.Signatures.s = sigs] :
     u \in SigStructUnprotected,
     sigs \in {x \in [1..Len(m.Signatures.s) -> SigStructSignatures] :
                 x[i].Headers.Protected = m.Signatures.s[i].Headers.Protected}}

\* what the bytes to be signed are made of, and that they are the same for
\* every message of SigStructVariants
SigStructureOf(m, i) ==
  /\ ret.err = "nil"
  /\ Len(ret.val.cbor) = 5
  /\ ret.val.cbor[1] = "Signature"
  /\ ret.val.cbor[2] \in {b.bstr : b \in EncodeProtected(m.Headers)}
  /\ ret.val.cbor[3] \in {b.bstr : b \in EncodeProtected(m.Signatures.s[i].Headers)}
  /\ ret.val.cbor[4] = arg.ext
  /\ ret.val.cbor[5] = m.Payload
  /\ \A m2 \in SigStructVariants(m, i) :
       SigStructure(m2, arg.ext, m2.Signatures.s[i]) = {ret}

\* For protected maps that hold each header once, the bytes to be signed
\* are the encoding of the five elements and depend on nothing else.
SigStructureOfSingleSpelling ==
  (/\ op = "SigStructure"
   /\ NoTwoSpellings(msg.Headers.Protected)
   /\ NoTwoSpellings(msg.Signatures.s[arg.i].Headers.Protected))
    => SigStructureOf(msg, arg.i)

\* C24: the to-be-signed bytes of signature i are the encoding of the
\* 5-element sequence ["Signature", encoded message protected headers,
\* encoded protected headers of signature i, external data, payload], in
\* that order; they depend on nothing else, so two messages that differ
\* only in unprotected headers (of the message or of any signature) or in
\* the other signatures of the list yield the same to-be-signed bytes for
\* signature i.
C24_SigStructure == op = "SigStructure" => SigStructureOf(msg, arg.i)

(***************************************************************************)
(* Claims on Headers.EncodeProtected (SpecEncode).                         *)
(***************************************************************************)
\* The spellings of header keys: the label, the CommonHeaderID tag and the
\* int tag of each common header.  Two keys spell the same header when the
\* encoder writes the same CBOR key for them after compression.
SpellingKeys ==
  {Str(l) : l \in DOMAIN LabelTag} \cup {CommonHeaderID(i) : i \in 1..7}
    \cup {GoInt(i) : i \in 1..7}
WireKey(k) == CborValue(CompressEntry([k |-> k, v |-> GoNil]).k)
KeySpellings(k) == {k} \cup {q \in SpellingKeys : WireKey(q) = WireKey(k)}
OneEntryPerHeader(m) == \A x, y \in m.e : WireKey(x.k) = WireKey(y.k) => x = y
HoldsAlgName(m) == \E x \in m.e : WireKey(x.k) = CborValue(GoInt(1)) /\ IsAlgNameValue(x.v)

\* The maps that hold the entries of m with each key spelled in any way.
Respellings(m) ==
  {MkMap({[k |-> g[x], v |-> x.v] : x \in m.e}) :
     g \in {h \in [m.e -> SpellingKeys \cup Keys(m)] :
              \A x \in m.e : h[x] \in KeySpellings(x.k)}}

\* ret is the empty byte string for a nil or empty map p, and otherwise the
\* encoding of a compressed form of p, in which no label is left as a key.
EncodesCompressed(p) ==
  /\ ret.err = "nil"
  /\ IF p.isnil \/ p.e = {}
     THEN ret.bstr = EmptyBstr
     ELSE /\ ret.bstr \in {[empty |-> FALSE, enc |-> Marshal(CborMap(c))] :
                             c \in CompressHeaders(p)}
          /\ \A x \in ret.bstr.enc.cbor.e : ~IsLabelKey(x.k)

\* Every respelling of p encodes to ret.
SpellingIndependent(p) ==
  OneEntryPerHeader(p) =>
    \A q \in Respellings(p) :
      EncodeProtected(MkHeaders(q, MkMap({}))) = {[panic |-> FALSE, bstr |-> ret.bstr]}

\* EncodeProtected encodes the compressed map, and the bytes do not depend
\* on the spelling of the keys when no algorithm is given by its name.
EncodeProtectedNoAlgName ==
  (op = "EncodeProtected" /\ ~hdr.isnil) =>
    /\ EncodesCompressed(hdr.Protected)
    /\ ~HoldsAlgName(hdr.Protected) => SpellingIndependent(hdr.Protected)

EncodeProtectedNoAlgName_Witness ==
  /\ op = "EncodeProtected"
  /\ hdr.Protected.e = {[k |-> GoInt(1), v |-> GoInt(-7)], [k |-> Str("kid"), v |-> Str("k1")]}

\* C25: EncodeProtected returns the empty byte string when the protected map
\* is nil or has no entries, and otherwise the encoder output of
\* CompressHeaders(protected), never the encoding of the uncompressed map;
\* two protected maps that differ only by the label or tag spelling of the
\* same entries encode to the same bytes.
C25_EncodeProtected ==
  (op = "EncodeProtected" /\ ~hdr.isnil) =>
    EncodesCompressed(hdr.Protected) /\ SpellingIndependent(hdr.Protected)

(***************************************************************************)
(* Claims on the entries CompressHeaders keeps (SpecCompress).             *)
(***************************************************************************)
\* m holds a label together with its CommonHeaderID tag.
HoldsLabelAndTag(m) ==
  \E x \in m.e : IsLabelKey(x.k) /\ CommonHeaderID(LabelTag[x.k.s]) \in Keys(m)

\* ret.out has as many entries as the map given, and is the only outcome.
KeepsEveryEntry ==
  /\ Cardinality(ret.out.e) = Cardinality(hdr.Protected.e)
  /\ CompressHeaders(hdr.Protected) = {ret.out}

\* A map that holds no label together with its tag keeps all its entries.
KeepsEveryEntryOfDistinctHeaders ==
  (op = "CompressHeaders" /\ ~HoldsLabelAndTag(hdr.Protected)) => KeepsEveryEntry

\* C27: CompressHeaders never merges or drops entries: the output has
\* exactly as many entries as the input and is the same on every run, also
\* for a map that holds both a label and its already compressed tag.
C27_NoMerge == op = "CompressHeaders" => KeepsEveryEntry

(***************************************************************************)
(* Claims on the algorithm slot held twice, and on unsigned values         *)
(* (SpecHeaders).                                                          *)
(***************************************************************************)
\* The keys under which the compressed form of m holds the algorithm slot.
CompressedSlotKeys(m) == {CompressEntry(x).k : x \in AlgSlot(m)}

InBothMaps == ~hdr.isnil /\ AlgSlot(hdr.Protected) # {} /\ AlgSlot(hdr.Unprotected) # {}

\* Algorithm fails when both maps hold the slot under the same key once
\* compressed.
AlgorithmInBothMapsSameKey ==
  (/\ op = "Algorithm"
   /\ InBothMaps
   /\ CompressedSlotKeys(hdr.Protected) = CompressedSlotKeys(hdr.Unprotected))
    => ret.err # "nil"

AlgorithmInBothMapsSameKey_Witness ==
  /\ op = "Algorithm"
  /\ hdr.Protected.e = {[k |-> Str("alg"), v |-> GoInt(-7)]}
  /\ hdr.Unprotected.e = {[k |-> CommonHeaderID(1), v |-> GoInt64(-35)]}
  /\ ret.err = "ErrAlgNotFound"

\* C28: Algorithm fails whenever the algorithm slot is present in both the
\* protected and the unprotected map, whatever key representation each map
\* uses for it; it never picks the value of one map.
C28_AmbiguousAlgorithm == (op = "Algorithm" /\ InBothMaps) => ret.err # "nil"

\* The value Algorithm found in the slot of the receiver as it left it.
SlotValue == AlgorithmProbe(ret.h, 1)

\* A uint64 resolves only when its 64-bit pattern is that of a signing ID.
Uint64ResolvesByWrapAround ==
  (/\ op = "Algorithm" /\ ~hdr.isnil
   /\ SlotValue.err = "nil" /\ SlotValue.val.t = "uint64" /\ ret.err = "nil")
    => SlotValue.val.n \in {-37, -36, -35, -7} /\ ret.id = SlotValue.val.n

\* C29: Algorithm never resolves an unsigned 64-bit value to a signing
\* algorithm by integer wrap-around: for every uint64 value in the algorithm
\* slot, 2^64 - 36 among them, the result is AlgNotFound.
C29_NoWrapAround ==
  (/\ op = "Algorithm" /\ ~hdr.isnil
   /\ SlotValue.err = "nil" /\ SlotValue.val.t = "uint64")
    => ret.err = "ErrAlgNotFound"

(***************************************************************************)
(* Claims on the in-place normalization (SpecNormalize).                   *)
(***************************************************************************)
\* The normalization changes nothing: the map Algorithm left is its own
\* compressed form, the headers encode after the call as before it, and the
\* digest of Verify is that of Sign.
NormalizationIsNeutral ==
  /\ op = "Algorithm" =>
        /\ ret.again = msg.Signatures.s[1].Headers.Protected
        /\ ret.after = ret.before
  /\ (op = "Verify" /\ ret.err = "nil") => ret.vdigest = ret.sdigest

\* It changes nothing for headers that hold each header under one spelling.
NormalizationIsNeutralSingleSpelling ==
  (NoTwoSpellings(hdr.Protected) /\ NoTwoSpellings(msg.Headers.Protected))
    => NormalizationIsNeutral

NormalizationIsNeutral_Witness ==
  /\ op = "Verify"
  /\ ret.err = "nil"
  /\ hdr.Protected.e = {[k |-> Str("alg"), v |-> GoInt(-7)]}
  /\ msg.Signatures.s[1].Headers.Protected.e = {[k |-> CommonHeaderID(1), v |-> GoInt(-7)]}
  /\ ret.vdigest = ret.sdigest
  /\ ret.sdigest # NoDigest

\* C30: the in-place normalization done by Algorithm does not change what is
\* signed: CompressHeaders is idempotent, EncodeProtected of the headers
\* after an Algorithm call equals EncodeProtected before it, and the digest
\* Sign computes for a signature equals the digest a later Verify computes
\* for it on the same message and external data.
C30_Normalization == NormalizationIsNeutral

(***************************************************************************)
(* Claims on the outcome of a successful Sign (SpecSignPost, Spec).        *)
(***************************************************************************)
\* The map after holds the entries of the map before, none dropped, each
\* under the label or the tag of its header.
SameLogicalContent(before, after) ==
  /\ after \in CompressHeaders(before)
  /\ Cardinality(after.e) = Cardinality(before.e)

\* What a Sign that returned nil has left, for the message m it was given.
SignPostcondition(m) ==
  LET n == Len(m.Signatures.s)
  IN  /\ ret'.calls = FirstIndexes(n)
      /\ Len(arg'.who) = n
      /\ msg'.Payload = m.Payload
      /\ msg'.Headers = m.Headers
      /\ ~msg'.Signatures.isnil /\ Len(msg'.Signatures.s) = n
      /\ \A i \in 1..n :
           LET was == m.Signatures.s[i]
               now == msg'.Signatures.s[i]
               digests == {d.val : d \in {x \in SignatureDigest(msg', arg'.ext, now) :
                                            x.err = "nil"}}
           IN  /\ SameLogicalContent(was.Headers.Protected, now.Headers.Protected)
               /\ SameLogicalContent(was.Headers.Unprotected, now.Headers.Unprotected)
               /\ \E d \in digests :
                    /\ d.hash = getSigningAlgHashFuncByID(arg'.who[i].algID).val
                    /\ now.SignatureBytes =
                         ECDSASignerSign(arg'.who[i], d, RandRead(arg'.rand, i)).val

EachHeaderOnce(m) ==
  /\ NoTwoSpellings(m.Headers.Protected)
  /\ \A i \in 1..Len(m.Signatures.s) :
       /\ NoTwoSpellings(m.Signatures.s[i].Headers.Protected)
       /\ NoTwoSpellings(m.Signatures.s[i].Headers.Unprotected)

\* The postcondition holds for messages that hold each header under one
\* spelling.
SignPostconditionEachHeaderOnce ==
  [][(op' = "Sign" /\ ret'.err = "nil" /\ EachHeaderOnce(msg)) => SignPostcondition(msg)]_vars

SignPostcondition_Witness ==
  /\ op = "Sign"
  /\ ret.err = "nil"
  /\ ret.calls = <<1, 2>>
  /\ msg.Headers.Protected.e = {[k |-> Str("kid"), v |-> Str("k1")]}
  /\ msg.Signatures.s[1].Headers.Protected.e = {[k |-> CommonHeaderID(1), v |-> GoInt(-7)]}
  /\ msg.Signatures.s[2].Headers.Protected.e = {[k |-> GoInt(1), v |-> GoInt64(-35)]}
  /\ msg.Signatures.s[2].Headers.Unprotected.e = {[k |-> CommonHeaderID(4), v |-> Str("u1")]}
  /\ arg.who = <<SignerES256, SignerES384>>

\* C26: when Sign returns no error, for every index i Signatures[i]
\* holds exactly the bytes signers[i].Sign returned on the digest of
\* signature i's own Signature-Structure, hashed with the hash function of
\* its declared algorithm; the signers were invoked in increasing index
\* order, once each; payload, the logical content of the headers and the
\* number and order of the Signatures are unchanged.
C26_SignPostcondition ==
  [][(op' = "Sign" /\ ret'.err = "nil") => SignPostcondition(msg)]_vars

====
